---- MODULE Spec2Model ----
(***************************************************************************)
(* A model of the CMS-2 language server: the semantic parser               *)
(* (src/cms2_semantic_parser.py) and the LSP dispatcher                    *)
(* (src/cms2_lsp_server.py).                                               *)
(*                                                                         *)
(* Text is modelled at the level the regular expressions of the parser     *)
(* read it: a statement is a sequence of tokens (the maximal runs of       *)
(* non-blank characters of the statement, which the source separates by    *)
(* blanks), and a token is the sequence of its characters.  Upper-casing,  *)
(* prefix and substring tests, identifier shapes and digit strings are     *)
(* computed on the characters.                                             *)
(*                                                                         *)
(* Python's None is the empty sequence <<>> (falsy, like None and '');     *)
(* an Optional[int] holding n is <<n>>.  A dict is a function; a dict      *)
(* whose insertion order is read is a sequence of its values.  Objects     *)
(* that are shared between a registry and a block index and mutated after  *)
(* their creation (blocks, tables, types, procedures, functions) live in   *)
(* `heap`; registries and indexes hold their positions in it.              *)
(***************************************************************************)
EXTENDS Integers, Sequences, FiniteSets, TLC

VARIABLES
    model,      \* CMS2SemanticModel: registries, current_scope, constant_mode
    heap,       \* the entity objects created by the current parse, by creation order
    self,       \* CMS2SemanticParser: the block-tracking fields
    closed,     \* history: positions in heap of the entities a close handler has set line_end on
    line,       \* parse(): the index i of the physical line being read
    nstmt,      \* history: number of statements handed to _parse_statement so far
    declared,   \* history: variable key -> the entity of the last declaration made under it
    lines,      \* CMS2SemanticParser.lines: the physical lines of the text being parsed
    statement_buffer, \* parse(): the text read so far that no `$` has terminated yet
    handed,     \* history: the (statement, line_num) pairs given to _parse_statement, in order
    before,     \* history: the text this parser instance parsed before the current one
    documents,  \* CMS2LanguageServer.documents: uri -> text
    models,     \* CMS2LanguageServer.models: uri -> the model of the last parse
    parsers,    \* CMS2LanguageServer.parsers: uri -> the parser of the last parse
    running,    \* CMS2LanguageServer.running
    stdout,     \* the responses written by _send_message, in order
    requested,  \* history: the id-carrying messages put on stdin, in order
    current,    \* history: uri -> the text the notifications handled so far make current,
                \* or the record of its didClose
    asof,       \* history: for each response, the current text of its uri when it was written
    nmsg        \* history: number of messages put on stdin so far

tvars == <<lines, statement_buffer, handed, before>>

pvars == <<model, heap, self, closed, line, nstmt, declared, lines, statement_buffer, handed,
          before>>

svars == <<documents, models, parsers, running, stdout, requested, current, asof, nmsg>>

vars == <<model, heap, self, closed, line, nstmt, declared, lines, statement_buffer, handed, before,
          documents, models, parsers, running, stdout, requested, current, asof, nmsg>>

(***************************************************************************)
(* Bounds of the model.                                                    *)
(***************************************************************************)
MaxLines == 3
MaxStmts == 3
MaxMsgs == 3

(***************************************************************************)
(* Characters and tokens.                                                  *)
(***************************************************************************)
UC == <<"A","B","C","D","E","F","G","H","I","J","K","L","M",
        "N","O","P","Q","R","S","T","U","V","W","X","Y","Z">>
LC == <<"a","b","c","d","e","f","g","h","i","j","k","l","m",
        "n","o","p","q","r","s","t","u","v","w","x","y","z">>

\* a letter, as [A-Z] under re.IGNORECASE takes it
Letters == { UC[i] : i \in DOMAIN UC } \cup { LC[i] : i \in DOMAIN LC }

\* int() on one digit
DigitValue ==
    [ c \in {"0","1","2","3","4","5","6","7","8","9"} |->
        CHOOSE n \in 0..9 : <<"0","1","2","3","4","5","6","7","8","9">>[n + 1] = c ]

\* a character \d takes
Digits == DOMAIN DigitValue

\* str.upper() on one character
UpperOf == [ c \in { LC[i] : i \in DOMAIN LC } |-> UC[CHOOSE i \in DOMAIN LC : LC[i] = c] ]
UpperChar(c) == IF c \in DOMAIN UpperOf THEN UpperOf[c] ELSE c

\* str.upper() on a token
Upper(tok) == [i \in DOMAIN tok |-> UpperChar(tok[i])]

\* str.upper() on a statement
UpperStmt(stmt) == [i \in DOMAIN stmt |-> Upper(stmt[i])]

None == <<>>

\* str.startswith
StartsWith(tok, kw) == Len(tok) >= Len(kw) /\ SubSeq(tok, 1, Len(kw)) = kw

\* the `in` operator on strings, within one token
Contains(tok, kw) ==
    \E i \in 1..(Len(tok) - Len(kw) + 1) : SubSeq(tok, i, i + Len(kw) - 1) = kw

\* `kw in upper` for a keyword without blanks: it lies within one token
StmtContains(ustmt, kw) == \E i \in DOMAIN ustmt : Contains(ustmt[i], kw)

\* `' KW ' in upper`: a token equal to KW with a blank on both sides
StmtHasWord(ustmt, kw) == \E i \in 2..(Len(ustmt) - 1) : ustmt[i] = kw

\* upper.startswith(kw) on the stripped statement
StmtStartsWith(ustmt, kw) == Len(ustmt) >= 1 /\ StartsWith(ustmt[1], kw)

\* fullmatch of [A-Z][A-Z0-9_]* under re.IGNORECASE
IsIdent(tok) ==
    /\ Len(tok) >= 1
    /\ tok[1] \in Letters
    /\ \A i \in 2..Len(tok) :
          tok[i] \in Letters \/ tok[i] \in Digits \/ tok[i] = "_"

\* fullmatch of \d+
IsDigits(tok) == Len(tok) >= 1 /\ \A i \in DOMAIN tok : tok[i] \in Digits

\* int() on a digit string
RECURSIVE ToInt(_)
ToInt(tok) ==
    IF Len(tok) = 0 THEN 0
    ELSE 10 * ToInt(SubSeq(tok, 1, Len(tok) - 1)) + DigitValue[tok[Len(tok)]]

(***************************************************************************)
(* Keywords of the statement classifier and of the handlers' patterns.     *)
(***************************************************************************)
Keyword ==
    [ SYS_DD       |-> <<"S","Y","S","-","D","D">>,
      END_SYS_DD   |-> <<"E","N","D","-","S","Y","S","-","D","D">>,
      SYS_PROC     |-> <<"S","Y","S","-","P","R","O","C">>,
      SYS_PROC_REN |-> <<"S","Y","S","-","P","R","O","C","-","R","E","N">>,
      END_SYS_PROC |-> <<"E","N","D","-","S","Y","S","-","P","R","O","C">>,
      LOC_DD       |-> <<"L","O","C","-","D","D">>,
      END_LOC_DD   |-> <<"E","N","D","-","L","O","C","-","D","D">>,
      VRBL         |-> <<"V","R","B","L">>,
      TABLE        |-> <<"T","A","B","L","E">>,
      END_TABLE    |-> <<"E","N","D","-","T","A","B","L","E">>,
      FIELD        |-> <<"F","I","E","L","D">>,
      TYPE         |-> <<"T","Y","P","E">>,
      END_TYPE     |-> <<"E","N","D","-","T","Y","P","E">>,
      PROCEDURE    |-> <<"P","R","O","C","E","D","U","R","E">>,
      EXEC_PROC    |-> <<"E","X","E","C","-","P","R","O","C">>,
      END_PROC     |-> <<"E","N","D","-","P","R","O","C">>,
      FUNCTION     |-> <<"F","U","N","C","T","I","O","N">>,
      END_FUNCTION |-> <<"E","N","D","-","F","U","N","C","T","I","O","N">>,
      CMODE        |-> <<"C","M","O","D","E">>,
      EXTDEF       |-> <<"(","E","X","T","D","E","F",")">>,
      EXTREF       |-> <<"(","E","X","T","R","E","F",")">>,
      LOCREF       |-> <<"(","L","O","C","R","E","F",")">>,
      TRANSREF     |-> <<"(","T","R","A","N","S","R","E","F",")">>,
      INPUT        |-> <<"I","N","P","U","T">>,
      OUTPUT       |-> <<"O","U","T","P","U","T">>,
      EXIT         |-> <<"E","X","I","T">>,
      GLOBAL       |-> <<"G","L","O","B","A","L">>,
      LPAR         |-> <<"(">>,
      RPAR         |-> <<")">>,
      COMMA        |-> <<",">>,
      INDIRECT     |-> <<"I","N","D","I","R","E","C","T">>,
      MJ           |-> <<"M","J">> ]

(***************************************************************************)
(* _parse_statement: the classifier.  The first branch of the if/elif      *)
(* chain whose condition holds names the handler; "ignored" when none      *)
(* does.  `stmt` is the stripped statement, as parse() hands it over.      *)
(***************************************************************************)
Classify(stmt) ==
    LET upper == UpperStmt(stmt)
        modVrbl(m) == Len(upper) >= 2 /\ upper[1] = m /\ StartsWith(upper[2], Keyword.VRBL)
        modProc(m) == Len(upper) >= 2 /\ upper[1] = m /\ StartsWith(upper[2], Keyword.PROCEDURE)
    IN
    IF StmtContains(upper, Keyword.SYS_DD) /\ ~StmtContains(upper, Keyword.END_SYS_DD)
        THEN "sys_dd_start"
    ELSE IF StmtContains(upper, Keyword.END_SYS_DD)
        THEN "end_sys_dd"
    ELSE IF StmtContains(upper, Keyword.SYS_PROC) /\ ~StmtContains(upper, Keyword.END_SYS_PROC)
        THEN "sys_proc_start"
    ELSE IF StmtContains(upper, Keyword.END_SYS_PROC)
        THEN "end_sys_proc"
    ELSE IF StmtStartsWith(upper, Keyword.LOC_DD)
            \/ \E i \in 2..Len(upper) : StartsWith(upper[i], Keyword.LOC_DD)
        THEN "loc_dd"
    ELSE IF StmtContains(upper, Keyword.END_LOC_DD)
        THEN "end_loc_dd"
    ELSE IF StmtStartsWith(upper, Keyword.VRBL) \/ StmtHasWord(upper, Keyword.VRBL)
            \/ modVrbl(Keyword.EXTDEF) \/ modVrbl(Keyword.EXTREF)
            \/ modVrbl(Keyword.LOCREF) \/ modVrbl(Keyword.TRANSREF)
        THEN "vrbl"
    ELSE IF StmtStartsWith(upper, Keyword.TABLE) \/ StmtHasWord(upper, Keyword.TABLE)
        THEN "table"
    ELSE IF StmtContains(upper, Keyword.END_TABLE)
        THEN "end_table"
    ELSE IF StmtStartsWith(upper, Keyword.FIELD)
        THEN "field"
    ELSE IF StmtStartsWith(upper, Keyword.TYPE) /\ ~StmtContains(upper, Keyword.END_TYPE)
        THEN "type"
    ELSE IF StmtContains(upper, Keyword.END_TYPE)
        THEN "end_type"
    ELSE IF StmtStartsWith(upper, Keyword.PROCEDURE) \/ StmtHasWord(upper, Keyword.PROCEDURE)
            \/ modProc(Keyword.EXTDEF) \/ modProc(Keyword.EXTREF)
        THEN "procedure"
    ELSE IF StmtStartsWith(upper, Keyword.EXEC_PROC) \/ StmtHasWord(upper, Keyword.EXEC_PROC)
        THEN "exec_proc"
    ELSE IF StmtContains(upper, Keyword.END_PROC)
        THEN "end_proc"
    ELSE IF StmtStartsWith(upper, Keyword.FUNCTION) \/ StmtHasWord(upper, Keyword.FUNCTION)
        THEN "function"
    ELSE IF StmtContains(upper, Keyword.END_FUNCTION)
        THEN "end_function"
    ELSE IF StmtStartsWith(upper, Keyword.CMODE)
        THEN "cmode"
    ELSE "ignored"

(***************************************************************************)
(* The parser's state as one value, so that a handler is an operator from  *)
(* state to state: m the model, h the heap, s the parser's own fields,     *)
(* c the history of closed entities.                                       *)
(***************************************************************************)
NewModel ==
    [ variables       |-> <<>>,       \* key -> VariableDefinition
      tables          |-> <<>>,       \* name -> position in heap
      types           |-> <<>>,
      procedures      |-> <<>>,
      functions       |-> <<>>,
      sys_data_blocks |-> <<>>,
      sys_proc_blocks |-> <<>>,
      current_scope   |-> Keyword.GLOBAL,
      scope_stack     |-> <<>>,
      constant_mode   |-> "D" ]

ResetState ==
    [ in_sys_dd         |-> FALSE, current_sys_dd    |-> None,
      in_sys_proc       |-> FALSE, current_sys_proc  |-> None,
      in_table_block    |-> FALSE, current_table     |-> None,
      in_type_block     |-> FALSE, current_type      |-> None,
      in_procedure      |-> FALSE, current_procedure |-> None,
      in_function       |-> FALSE, current_function  |-> None,
      in_loc_dd         |-> FALSE ]

\* the parser right after `self.model = CMS2SemanticModel()` and _reset_state()
FreshParser == [ m |-> NewModel, h |-> <<>>, s |-> ResetState, c |-> {}, b |-> <<>>, t |-> <<>> ]

\* d[k] = v on a dict
Put(d, k, v) == (k :> v) @@ d

\* `k in d`
Has(d, k) == k \in DOMAIN d

\* max(S)
Max(S) == CHOOSE i \in S : \A j \in S : j <= i

\* CMS2SemanticModel.add_variable: under the bare name and under the scoped key
add_variable(M, var) ==
    LET key == IF M.current_scope # Keyword.GLOBAL
               THEN M.current_scope \o <<".">> \o var.name
               ELSE var.name
    IN [M EXCEPT !.variables = Put(Put(@, var.name, var), key, var)]

\* CMS2SemanticModel.get_variable: the scoped key first, then the bare name
get_variable(M, name) ==
    LET scoped_name == M.current_scope \o <<".">> \o name IN
    IF Has(M.variables, scoped_name) THEN <<M.variables[scoped_name]>>
    ELSE IF Has(M.variables, name) THEN <<M.variables[name]>>
    ELSE None

\* add_table that stores nothing
add_table_dropped(M, name, id) == M

\* add_procedure keeping the entry a name already has
add_procedure_first_wins(M, name, id) ==
    IF Has(M.procedures, name) THEN M ELSE [M EXCEPT !.procedures = Put(@, name, id)]

\* add_table, add_type, add_procedure, add_function: registry[entity.name] = entity,
\* the entity being the heap object `id`
add_table(M, name, id)     == [M EXCEPT !.tables = Put(@, name, id)]
add_type(M, name, id)      == [M EXCEPT !.types = Put(@, name, id)]
add_procedure(M, name, id) == [M EXCEPT !.procedures = Put(@, name, id)]
add_function(M, name, id)  == [M EXCEPT !.functions = Put(@, name, id)]

\* allocate object `o`; its position is Len(P.h) + 1
Alloc(P, o) == [P EXCEPT !.h = Append(@, o)]

SystemDataBlock(name, line_num) ==
    [ kind |-> "sys_dd", name |-> name,
      variables |-> <<>>, tables |-> <<>>, types |-> <<>>,
      line_start |-> line_num, line_end |-> 0 ]

SystemProcBlock(name, is_reentrant, line_num) ==
    [ kind |-> "sys_proc", name |-> name, is_reentrant |-> is_reentrant,
      procedures |-> <<>>, functions |-> <<>>, local_data |-> <<>>,
      line_start |-> line_num, line_end |-> 0 ]

\* re.match(r'([A-Z][A-Z0-9_]*)\s+SYS-DD', statement, re.IGNORECASE)
parse_sys_dd_start(P, stmt, line_num) ==
    IF Len(stmt) >= 2 /\ IsIdent(stmt[1]) /\ StartsWith(Upper(stmt[2]), Keyword.SYS_DD)
    THEN LET name == Upper(stmt[1])
             id   == Len(P.h) + 1
             Q    == Alloc(P, SystemDataBlock(name, line_num))
         IN [Q EXCEPT !.m.sys_data_blocks = Put(@, name, id),
                      !.s.current_sys_dd = name,
                      !.s.in_sys_dd = TRUE,
                      !.m.current_scope = name]
    ELSE P

handle_end_sys_dd(P, stmt, line_num) ==
    LET cur == P.s.current_sys_dd
        Q == IF cur # None /\ Has(P.m.sys_data_blocks, cur)
             THEN [P EXCEPT !.h[P.m.sys_data_blocks[cur]].line_end = line_num,
                            !.c = @ \cup {P.m.sys_data_blocks[cur]}]
             ELSE P
    IN [Q EXCEPT !.s.in_sys_dd = FALSE,
                 !.s.current_sys_dd = None,
                 !.m.current_scope = Keyword.GLOBAL]

\* re.match(r'([A-Z][A-Z0-9_]*)\s+SYS-PROC', statement, re.IGNORECASE)
parse_sys_proc_start(P, stmt, line_num) ==
    LET is_reentrant == StmtContains(UpperStmt(stmt), Keyword.SYS_PROC_REN) IN
    IF Len(stmt) >= 2 /\ IsIdent(stmt[1]) /\ StartsWith(Upper(stmt[2]), Keyword.SYS_PROC)
    THEN LET name == Upper(stmt[1])
             id   == Len(P.h) + 1
             Q    == Alloc(P, SystemProcBlock(name, is_reentrant, line_num))
         IN [Q EXCEPT !.m.sys_proc_blocks = Put(@, name, id),
                      !.s.current_sys_proc = name,
                      !.s.in_sys_proc = TRUE,
                      !.m.current_scope = name]
    ELSE P

\* handle_end_sys_proc leaving the scope of the block it closes
handle_end_sys_proc_keeps_scope(P, stmt, line_num) ==
    LET cur == P.s.current_sys_proc
        Q == IF cur # None /\ Has(P.m.sys_proc_blocks, cur)
             THEN [P EXCEPT !.h[P.m.sys_proc_blocks[cur]].line_end = line_num,
                            !.c = @ \cup {P.m.sys_proc_blocks[cur]}]
             ELSE P
    IN [Q EXCEPT !.s.in_sys_proc = FALSE,
                 !.s.current_sys_proc = None]

handle_end_sys_proc(P, stmt, line_num) ==
    LET cur == P.s.current_sys_proc
        Q == IF cur # None /\ Has(P.m.sys_proc_blocks, cur)
             THEN [P EXCEPT !.h[P.m.sys_proc_blocks[cur]].line_end = line_num,
                            !.c = @ \cup {P.m.sys_proc_blocks[cur]}]
             ELSE P
    IN [Q EXCEPT !.s.in_sys_proc = FALSE,
                 !.s.current_sys_proc = None,
                 !.m.current_scope = Keyword.GLOBAL]

(***************************************************************************)
(* Strings as character sequences.                                         *)
(***************************************************************************)
\* ' '.join(tokens)
RECURSIVE Join(_)
Join(toks) ==
    IF Len(toks) = 0 THEN <<>>
    ELSE IF Len(toks) = 1 THEN toks[1]
    ELSE toks[1] \o <<" ">> \o Join(Tail(toks))

\* str.find(ch) + 1: the first position of ch, 0 when there is none
IndexOf(cs, ch) ==
    IF \E i \in DOMAIN cs : cs[i] = ch
    THEN CHOOSE i \in DOMAIN cs : cs[i] = ch /\ \A j \in 1..(i - 1) : cs[j] # ch
    ELSE 0

\* str.split(ch)
RECURSIVE Split(_, _)
Split(cs, ch) ==
    LET i == IndexOf(cs, ch) IN
    IF i = 0 THEN <<cs>>
    ELSE <<SubSeq(cs, 1, i - 1)>> \o Split(SubSeq(cs, i + 1, Len(cs)), ch)

\* str.strip()
RECURSIVE Strip(_)
Strip(cs) ==
    IF Len(cs) > 0 /\ cs[1] = " " THEN Strip(Tail(cs))
    ELSE IF Len(cs) > 0 /\ cs[Len(cs)] = " " THEN Strip(SubSeq(cs, 1, Len(cs) - 1))
    ELSE cs

NonEmpty(w) == w # <<>>

\* str.split(): the maximal runs of non-blank characters
Words(cs) == SelectSeq(Split(cs, " "), NonEmpty)

\* the longest prefix of tok that \d+ matches (empty when tok starts with no digit)
RECURSIVE DigitPrefix(_)
DigitPrefix(tok) ==
    IF Len(tok) > 0 /\ tok[1] \in Digits THEN <<tok[1]>> \o DigitPrefix(Tail(tok))
    ELSE <<>>

\* the longest prefix of tok that [A-Z][A-Z0-9_]* matches under re.IGNORECASE
RECURSIVE IdentTail(_)
IdentTail(tok) ==
    IF Len(tok) > 0 /\ (tok[1] \in Letters \/ tok[1] \in Digits \/ tok[1] = "_")
    THEN <<tok[1]>> \o IdentTail(Tail(tok))
    ELSE <<>>

IdentPrefix(tok) ==
    IF Len(tok) > 0 /\ tok[1] \in Letters
    THEN <<tok[1]>> \o IdentTail(Tail(tok))
    ELSE <<>>

\* the modifier loop of the declaration handlers: the first modifier of `mods`
\* that stmt.upper() starts with is cut off; [modifier, stmt]
StripModifier(stmt, mods) ==
    LET hits == { i \in DOMAIN mods : Len(stmt) >= 1 /\ StartsWith(Upper(stmt[1]), mods[i]) } IN
    IF hits = {} THEN [modifier |-> None, stmt |-> stmt]
    ELSE LET i    == CHOOSE k \in hits : \A j \in hits : k <= j
             mod  == mods[i]
             left == SubSeq(stmt[1], Len(mod) + 1, Len(stmt[1]))
         IN [ modifier |-> SubSeq(mod, 2, Len(mod) - 1),
              stmt     |-> IF left = <<>> THEN Tail(stmt) ELSE <<left>> \o Tail(stmt) ]

AllModifiers == <<Keyword.EXTDEF, Keyword.EXTREF, Keyword.LOCREF, Keyword.TRANSREF>>
ExecModifiers == <<Keyword.EXTDEF, Keyword.EXTREF>>

(***************************************************************************)
(* VRBL and _create_variable.                                              *)
(***************************************************************************)
\* STATUS_VALUE_PATTERN.findall(cs), scanning from position i
RECURSIVE StatusFindAll(_, _)
StatusFindAll(cs, i) ==
    IF i > Len(cs) THEN <<>>
    ELSE IF cs[i] = "'" /\ i + 1 <= Len(cs) /\ cs[i + 1] \in Letters
    THEN LET run == { j \in (i + 1)..Len(cs) :
                        \A k \in (i + 1)..j :
                           cs[k] \in Letters \/ cs[k] \in Digits }
             j   == CHOOSE x \in run : \A y \in run : y <= x
         IN IF j + 1 <= Len(cs) /\ cs[j + 1] = "'"
            THEN <<SubSeq(cs, i + 1, j)>> \o StatusFindAll(cs, j + 2)
            ELSE StatusFindAll(cs, i + 1)
    ELSE StatusFindAll(cs, i + 1)

\* re.search(r'\bP\s+(.+?)(?:\s|$)', type_spec, re.IGNORECASE): <<the capture>>, or None
PresetSearch(spec) ==
    LET isWordChar(c) == c \in Letters \/ c \in Digits \/ c = "_"
        hit(i) == LET t == spec[i] IN
                  /\ i < Len(spec)
                  /\ Len(t) >= 1
                  /\ UpperChar(t[Len(t)]) = "P"
                  /\ (Len(t) = 1 \/ ~isWordChar(t[Len(t) - 1]))
        hits == { i \in DOMAIN spec : hit(i) }
    IN IF hits = {} THEN None
       ELSE <<spec[(CHOOSE k \in hits : \A j \in hits : k <= j) + 1]>>

\* the VariableDefinition _create_variable builds from the type specification
variable_of(name, type_spec, T, modifier, line_num, parent_block) ==
    LET int_match ==
            /\ Len(T) >= 3 /\ T[1] = <<"I">> /\ IsDigits(T[2])
            /\ T[3][1] \in {"S", "U"}
        fixed_match ==
            /\ Len(T) >= 4 /\ T[1] = <<"A">> /\ IsDigits(T[2])
            /\ T[3] \in {<<"S">>, <<"U">>}
            /\ T[4][1] \in Digits
        float_match == Len(T) >= 1 /\ T[1][1] = "F"
        is_bool == Len(T) >= 1 /\ StartsWith(T[1], <<"B">>) /\ ~StartsWith(T[1], <<"B","Y">>)
        char_digits ==
            IF Len(T) >= 1 /\ T[1][1] \in {"H", "C"}
            THEN IF Len(T[1]) >= 2 THEN DigitPrefix(Tail(T[1]))
                 ELSE IF Len(T) >= 2 THEN DigitPrefix(T[2]) ELSE <<>>
            ELSE <<>>
        has_quote == \E i \in DOMAIN type_spec : Contains(type_spec[i], <<"'">>)
        status_values == IF has_quote THEN StatusFindAll(Join(type_spec), 1) ELSE <<>>
        var_type ==
            IF status_values # <<>> THEN "STATUS"
            ELSE IF char_digits # <<>> THEN "CHAR"
            ELSE IF is_bool THEN "BOOLEAN"
            ELSE IF float_match /\ ~int_match /\ ~fixed_match THEN "FLOAT"
            ELSE IF fixed_match THEN "FIXED"
            ELSE IF int_match THEN "INTEGER"
            ELSE "UNKNOWN"
    IN [ name          |-> name,
         var_type      |-> var_type,
         bits          |-> IF fixed_match \/ int_match THEN <<ToInt(T[2])>> ELSE None,
         signed        |-> IF fixed_match THEN T[3] = <<"S">>
                           ELSE IF int_match THEN T[3][1] = "S"
                           ELSE TRUE,
         frac_bits     |-> IF fixed_match THEN <<ToInt(DigitPrefix(T[4]))>> ELSE None,
         char_length   |-> IF char_digits # <<>> THEN <<ToInt(char_digits)>> ELSE None,
         status_values |-> status_values,
         is_preset     |-> PresetSearch(type_spec) # None,
         preset_value  |-> PresetSearch(type_spec),
         modifier      |-> modifier,
         line_number   |-> line_num,
         parent_block  |-> parent_block ]

\* the registrations at the end of _create_variable: the model, the open SYS-DD,
\* the open procedure
in_sys_dd_variables(P, var) ==
    LET dd == P.s.current_sys_dd IN
    IF dd # None /\ Has(P.m.sys_data_blocks, dd)
    THEN [P EXCEPT !.h[P.m.sys_data_blocks[dd]].variables = Put(@, var.name, var)]
    ELSE P

in_local_vars(P, var) ==
    LET pr == P.s.current_procedure IN
    IF pr # None /\ Has(P.m.procedures, pr)
    THEN [P EXCEPT !.h[P.m.procedures[pr]].local_vars = Put(@, var.name, var)]
    ELSE P

register_variable(P, var) ==
    in_local_vars(in_sys_dd_variables([P EXCEPT !.m = add_variable(@, var)], var), var)

create_variable(P, name, type_spec, modifier, line_num) ==
    register_variable(P,
        variable_of(name, type_spec, UpperStmt(type_spec), modifier, line_num,
                    IF P.s.current_sys_dd # None THEN P.s.current_sys_dd
                    ELSE P.s.current_sys_proc))

\* the loop `for name in names: self._create_variable(...)`
RECURSIVE create_variables(_, _, _, _, _)
create_variables(P, names, type_spec, modifier, line_num) ==
    IF Len(names) = 0 THEN P
    ELSE create_variables(create_variable(P, names[1], type_spec, modifier, line_num),
                          Tail(names), type_spec, modifier, line_num)

\* the names of the group: [n.strip() for n in group(1).split(',')]
StripAll(parts) == [i \in DOMAIN parts |-> Strip(parts[i])]

\* VRBL\s*\(([^)]+)\)\s+(.+) on the text after VRBL, whose ( is at `open` and
\* whose first ) is at `close`: [match, names, type_spec]
multi_groups(afterKw, open, close) ==
    [ match |-> /\ Len(afterKw) >= open /\ afterKw[open] = "("
                /\ close > open + 1
                /\ Len(afterKw) >= close + 2 /\ afterKw[close + 1] = " ",
      names |-> StripAll(Split(SubSeq(afterKw, open + 1, close - 1), ",")),
      type_spec |-> Words(SubSeq(afterKw, close + 2, Len(afterKw))) ]

multi_after(afterKw) ==
    multi_groups(afterKw,
                 IF Len(afterKw) >= 1 /\ afterKw[1] = " " THEN 2 ELSE 1,
                 IndexOf(afterKw, ")"))

multi_match(cs) ==
    IF Len(cs) >= 4 /\ Upper(SubSeq(cs, 1, 4)) = Keyword.VRBL
    THEN multi_after(SubSeq(cs, 5, Len(cs)))
    ELSE [ match |-> FALSE, names |-> <<>>, type_spec |-> <<>> ]

\* VRBL\s+([A-Z][A-Z0-9_]*)\s+(.+)
single_match(stmt) ==
    Len(stmt) >= 3 /\ Upper(stmt[1]) = Keyword.VRBL /\ IsIdent(stmt[2])

\* the two patterns of _parse_vrbl_declaration, on the statement without its modifier
vrbl_matched(P, stmt, multi, modifier, line_num) ==
    IF multi.match
    THEN create_variables(P, multi.names, multi.type_spec, modifier, line_num)
    ELSE IF single_match(stmt)
    THEN create_variable(P, Upper(stmt[2]), SubSeq(stmt, 3, Len(stmt)), modifier, line_num)
    ELSE P

vrbl_stripped(P, sm, line_num) ==
    vrbl_matched(P, sm.stmt, multi_match(Join(sm.stmt)), sm.modifier, line_num)

parse_vrbl_declaration(P, statement, line_num) ==
    vrbl_stripped(P, StripModifier(statement, AllModifiers), line_num)

(***************************************************************************)
(* Scanning helpers for the optional groups of the handlers' patterns.     *)
(* Every group after the required head of these patterns is optional and   *)
(* re.match does not anchor the end, so the match the engine returns is    *)
(* the one that takes each group greedily, left to right, where it fits.   *)
(* A scan is the text still to be matched and the groups captured so far   *)
(* (None for a group that took no part).                                   *)
(***************************************************************************)
\* \s* at the start of cs: what is left after it
RECURSIVE SkipBlanks(_)
SkipBlanks(cs) == IF Len(cs) > 0 /\ cs[1] = " " THEN SkipBlanks(Tail(cs)) ELSE cs

Drop(cs, n) == SubSeq(cs, n + 1, Len(cs))

Scan(cs) == [ rest |-> cs, groups |-> <<>> ]

\* \s*
Ws(st) == [st EXCEPT !.rest = SkipBlanks(@)]

\* a group has captured the prefix g of the rest (None: it took no part)
Take(st, g) == [ rest |-> Drop(st.rest, Len(g)), groups |-> Append(st.groups, g) ]

\* (\d+)?
OptDigits(st) == Take(st, DigitPrefix(st.rest))

\* (S|U)?
OptSign(st) ==
    Take(st, IF Len(st.rest) >= 1 /\ UpperChar(st.rest[1]) \in {"S", "U"}
             THEN <<st.rest[1]>> ELSE None)

\* (NONE|MEDIUM|DENSE)? at the start of cs: the capture, None when it does not fit
PackingAt(cs) ==
    IF StartsWith(Upper(cs), <<"N","O","N","E">>) THEN SubSeq(cs, 1, 4)
    ELSE IF StartsWith(Upper(cs), <<"M","E","D","I","U","M">>) THEN SubSeq(cs, 1, 6)
    ELSE IF StartsWith(Upper(cs), <<"D","E","N","S","E">>) THEN SubSeq(cs, 1, 5)
    ELSE None

OptPacking(st) == Take(st, PackingAt(st.rest))

\* (?:\(([^)]+)\))? with the first ) of the rest at cl
ParenAt(st, cl) ==
    IF Len(st.rest) >= 1 /\ st.rest[1] = "(" /\ cl > 2
    THEN [ rest |-> Drop(st.rest, cl), groups |-> Append(st.groups, SubSeq(st.rest, 2, cl - 1)) ]
    ELSE Take(st, None)

OptParen(st) == ParenAt(st, IndexOf(st.rest, ")"))

\* (?:INDIRECT\s+)?
OptIndirect(st) ==
    IF StartsWith(Upper(st.rest), Keyword.INDIRECT) /\ Len(st.rest) >= 9 /\ st.rest[9] = " "
    THEN [st EXCEPT !.rest = SkipBlanks(Drop(@, 8))]
    ELSE st

\* (\d+|[A-Z][A-Z0-9_]*)?
OptCount(st) ==
    Take(st, IF DigitPrefix(st.rest) # <<>> THEN DigitPrefix(st.rest) ELSE IdentPrefix(st.rest))

\* (?:(\d+)\s+(\d+))? with the first number g6 and the text `after` it
WordBitAt(st, g6, after) ==
    IF g6 # <<>> /\ Len(after) >= 1 /\ after[1] = " " /\ DigitPrefix(SkipBlanks(after)) # <<>>
    THEN [ rest   |-> Drop(SkipBlanks(after), Len(DigitPrefix(SkipBlanks(after)))),
           groups |-> st.groups \o <<g6, DigitPrefix(SkipBlanks(after))>> ]
    ELSE [st EXCEPT !.groups = @ \o <<None, None>>]

OptWordBit(st) ==
    WordBitAt(st, DigitPrefix(st.rest), Drop(st.rest, Len(DigitPrefix(st.rest))))

\* (?:P\s+(.+))?
OptPreset(st) ==
    IF Len(st.rest) >= 3 /\ UpperChar(st.rest[1]) = "P" /\ st.rest[2] = " "
    THEN [ rest |-> <<>>, groups |-> Append(st.groups, SkipBlanks(Drop(st.rest, 1))) ]
    ELSE Take(st, None)

\* re.search(r'\bMJ\s+([A-Z][A-Z0-9]*)', stmt, re.IGNORECASE): the capture or None
MajorIndexSearch(stmt) ==
    LET isWordChar(c) == c \in Letters \/ c \in Digits \/ c = "_"
        noUnderscore(t) == SubSeq(IdentPrefix(t), 1,
                                  IF IndexOf(IdentPrefix(t), "_") = 0 THEN Len(IdentPrefix(t))
                                  ELSE IndexOf(IdentPrefix(t), "_") - 1)
        hit(i) == /\ i < Len(stmt)
                  /\ Len(stmt[i]) >= 2
                  /\ Upper(SubSeq(stmt[i], Len(stmt[i]) - 1, Len(stmt[i]))) = Keyword.MJ
                  /\ (Len(stmt[i]) = 2 \/ ~isWordChar(stmt[i][Len(stmt[i]) - 2]))
                  /\ noUnderscore(stmt[i + 1]) # <<>>
        hits == { i \in DOMAIN stmt : hit(i) }
    IN IF hits = {} THEN None
       ELSE Upper(noUnderscore(stmt[(CHOOSE k \in hits : \A j \in hits : k <= j) + 1]))

\* dict assignment d[rec.name] = rec on a dict kept in insertion order
PutOrdered(d, rec) ==
    IF \E i \in DOMAIN d : d[i].name = rec.name
    THEN [i \in DOMAIN d |-> IF d[i].name = rec.name THEN rec ELSE d[i]]
    ELSE Append(d, rec)

(***************************************************************************)
(* TABLE, END-TABLE, FIELD.                                                *)
(***************************************************************************)
\* the text after the [VH] or [IAFBHC] character that follows the name
AfterType(stmt) == Join(<<Tail(stmt[3])>> \o SubSeq(stmt, 4, Len(stmt)))

\* the pattern of _parse_table_declaration: [match, groups], the groups being
\* <<packing, type_spec, count_str>>
table_match(stmt) ==
    [ match  |-> /\ Len(stmt) >= 3 /\ Upper(stmt[1]) = Keyword.TABLE /\ IsIdent(stmt[2])
                 /\ UpperChar(stmt[3][1]) \in {"V", "H"},
      groups |-> IF Len(stmt) >= 3
                 THEN OptCount(OptIndirect(Ws(OptParen(Ws(OptPacking(Ws(
                          Scan(AfterType(stmt))))))))).groups
                 ELSE <<>> ]

TableDefinition(name, table_type, g, is_indirect, major_index, line_num) ==
    [ kind        |-> "table",
      name        |-> name,
      table_type  |-> table_type,
      packing     |-> IF g[1] # None THEN Upper(g[1]) ELSE <<"N","O","N","E">>,
      item_count  |-> IF g[3] # None /\ IsDigits(g[3]) THEN <<ToInt(g[3])>> ELSE None,
      item_typed  |-> g[2] # None,
      type_spec   |-> g[2],
      fields      |-> <<>>,
      is_indirect |-> is_indirect,
      major_index |-> major_index,
      modifier    |-> None,
      line_start  |-> line_num,
      line_end    |-> 0 ]

\* a block index of the open SYS-DD: sys_data_blocks[current_sys_dd].<index>[name] = entity
in_sys_dd(P, index, name, id) ==
    LET dd == P.s.current_sys_dd IN
    IF dd # None /\ Has(P.m.sys_data_blocks, dd)
    THEN [P EXCEPT !.h[P.m.sys_data_blocks[dd]][index] = Put(@, name, id)]
    ELSE P

\* the body of `if match:` in _parse_table_declaration
register_table(P, name, table) ==
    in_sys_dd([Alloc(P, table) EXCEPT !.m = add_table(@, name, Len(P.h) + 1),
                                      !.s.current_table = name,
                                      !.s.in_table_block = TRUE],
              "tables", name, Len(P.h) + 1)

\* a TABLE handler that marks a table block open before it tries its pattern
table_matched_marks_open(P, stmt, g, line_num) ==
    IF ~g.match THEN [P EXCEPT !.s.in_table_block = TRUE]
    ELSE register_table(P, Upper(stmt[2]),
             TableDefinition(Upper(stmt[2]), UpperChar(stmt[3][1]), g.groups,
                             StmtContains(UpperStmt(stmt), Keyword.INDIRECT),
                             MajorIndexSearch(stmt), line_num))

table_matched(P, stmt, g, line_num) ==
    IF ~g.match THEN P
    ELSE register_table(P, Upper(stmt[2]),
             TableDefinition(Upper(stmt[2]), UpperChar(stmt[3][1]), g.groups,
                             StmtContains(UpperStmt(stmt), Keyword.INDIRECT),
                             MajorIndexSearch(stmt), line_num))

parse_table_declaration(P, statement, line_num) ==
    table_matched(P, statement, table_match(statement), line_num)

\* END-TABLE that closes the table and leaves line_end at its default
handle_end_table_default(P, stmt, line_num) ==
    LET cur == P.s.current_table
        Q == IF cur # None /\ Has(P.m.tables, cur)
             THEN [P EXCEPT !.c = @ \cup {P.m.tables[cur]}]
             ELSE P
    IN [Q EXCEPT !.s.in_table_block = FALSE, !.s.current_table = None]

handle_end_table(P, stmt, line_num) ==
    LET cur == P.s.current_table
        Q == IF cur # None /\ Has(P.m.tables, cur)
             THEN [P EXCEPT !.h[P.m.tables[cur]].line_end = line_num,
                            !.c = @ \cup {P.m.tables[cur]}]
             ELSE P
    IN [Q EXCEPT !.s.in_table_block = FALSE, !.s.current_table = None]

type_map(type_char) ==
    CASE type_char = "I" -> "INTEGER"
      [] type_char = "A" -> "FIXED"
      [] type_char = "F" -> "FLOAT"
      [] type_char = "B" -> "BOOLEAN"
      [] type_char = "H" -> "CHAR"
      [] type_char = "C" -> "CHAR"
      [] OTHER -> "UNKNOWN"

\* FieldDefinition built without parent_table, which then has its default None
FieldDefinition_orphan(name, field_type, bits, signed, frac_bits, char_length, start_word, start_bit, preset_values, line_number, parent_table) ==
    [ name |-> name, field_type |-> field_type, bits |-> bits, signed |-> signed,
      frac_bits |-> frac_bits, char_length |-> char_length,
      start_word |-> start_word, start_bit |-> start_bit,
      preset_values |-> preset_values, line_number |-> line_number,
      parent_table |-> None ]

FieldDefinition(name, field_type, bits, signed, frac_bits, char_length, start_word, start_bit, preset_values, line_number, parent_table) ==
    [ name |-> name, field_type |-> field_type, bits |-> bits, signed |-> signed,
      frac_bits |-> frac_bits, char_length |-> char_length,
      start_word |-> start_word, start_bit |-> start_bit,
      preset_values |-> preset_values, line_number |-> line_number,
      parent_table |-> parent_table ]

\* the pattern of _parse_field_declaration: [match, groups], the groups being
\* <<bits, sign, frac_bits, start_word, start_bit, preset>>
field_match(stmt) ==
    [ match  |-> /\ Len(stmt) >= 3 /\ Upper(stmt[1]) = Keyword.FIELD /\ IsIdent(stmt[2])
                 /\ UpperChar(stmt[3][1]) \in {"I", "A", "F", "B", "H", "C"},
      groups |-> IF Len(stmt) >= 3
                 THEN OptPreset(Ws(OptWordBit(Ws(OptDigits(Ws(OptSign(Ws(OptDigits(Ws(
                          Scan(AfterType(stmt)))))))))))).groups
                 ELSE <<>> ]

\* int(group) if group else None
IntOrNone(g) == IF g # <<>> THEN <<ToInt(g)>> ELSE None

field_of(name, type_char, g, line_num, parent_table) ==
    FieldDefinition(name, type_map(type_char), IntOrNone(g[1]),
                    IF g[2] # None THEN g[2] # <<"U">> ELSE TRUE,
                    IntOrNone(g[3]),
                    IF type_char \in {"H", "C"} THEN IntOrNone(g[1]) ELSE None,
                    IntOrNone(g[4]), IntOrNone(g[5]),
                    IF g[6] # None THEN <<g[6]>> ELSE <<>>,
                    line_num, parent_table)

\* a FIELD handler that does not ask for an open table: the field goes to the
\* table declared last
field_matched_in_last_table(P, stmt, g, line_num) ==
    LET tables == { i \in DOMAIN P.h : P.h[i].kind = "table" } IN
    IF g.match /\ tables # {}
    THEN [P EXCEPT !.h[Max(tables)].fields =
              PutOrdered(@, field_of(Upper(stmt[2]), UpperChar(stmt[3][1]), g.groups,
                                     line_num, P.h[Max(tables)].name))]
    ELSE P

\* the body of `if match and self.current_table:` in _parse_field_declaration
field_matched(P, stmt, g, line_num) ==
    IF g.match /\ P.s.current_table # None /\ Has(P.m.tables, P.s.current_table)
    THEN [P EXCEPT !.h[P.m.tables[P.s.current_table]].fields =
              PutOrdered(@, field_of(Upper(stmt[2]), UpperChar(stmt[3][1]), g.groups,
                                     line_num, P.s.current_table))]
    ELSE P

parse_field_declaration(P, statement, line_num) ==
    field_matched(P, statement, field_match(statement), line_num)

(***************************************************************************)
(* TYPE, END-TYPE.                                                         *)
(***************************************************************************)
TypeDefinition(name, packing, status_values, line_num) ==
    [ kind |-> "type", name |-> name, base_type |-> None, packing |-> packing,
      status_values |-> status_values, fields |-> <<>>,
      line_start |-> line_num, line_end |-> 0 ]

\* the status branch of _parse_type_declaration: TYPE\s+([A-Z][A-Z0-9_]*)\s+(.+)
status_type(P, stmt, name, line_num) ==
    IF Len(stmt) >= 3 /\ Upper(stmt[1]) = Keyword.TYPE /\ IsIdent(stmt[2])
    THEN in_sys_dd([Alloc(P, TypeDefinition(name, <<"N","O","N","E">>,
                                  StatusFindAll(Join(SubSeq(stmt, 3, Len(stmt))), 1),
                                  line_num))
                       EXCEPT !.m = add_type(@, name, Len(P.h) + 1)],
                   "types", name, Len(P.h) + 1)
    ELSE P

\* the structured branch, name being group 1 and g2 the packing group of
\* TYPE\s+([A-Z][A-Z0-9_]*)\s*(NONE|MEDIUM|DENSE)?
structured_type(P, stmt, name, g2, line_num) ==
    IF Len(stmt) >= 2 /\ Upper(stmt[1]) = Keyword.TYPE /\ name # <<>>
    THEN [Alloc(P, TypeDefinition(name,
                       IF g2 # None THEN Upper(g2) ELSE <<"N","O","N","E">>,
                       <<>>, line_num))
             EXCEPT !.m = add_type(@, name, Len(P.h) + 1),
                    !.s.current_type = name,
                    !.s.in_type_block = TRUE]
    ELSE P

\* the text after the name of a structured TYPE, at its first non-blank character
AfterName(stmt) ==
    SkipBlanks(Join(<<Drop(stmt[2], Len(IdentPrefix(stmt[2])))>> \o SubSeq(stmt, 3, Len(stmt))))

parse_type_declaration(P, statement, line_num) ==
    IF StmtContains(statement, <<"'">>)
    THEN status_type(P, statement,
                     IF Len(statement) >= 2 THEN Upper(statement[2]) ELSE <<>>, line_num)
    ELSE structured_type(P, statement,
                     IF Len(statement) >= 2 THEN Upper(IdentPrefix(statement[2])) ELSE <<>>,
                     IF Len(statement) >= 2 THEN PackingAt(AfterName(statement)) ELSE None,
                     line_num)

handle_end_type(P, stmt, line_num) ==
    LET cur == P.s.current_type
        Q == IF cur # None /\ Has(P.m.types, cur)
             THEN [P EXCEPT !.h[P.m.types[cur]].line_end = line_num,
                            !.c = @ \cup {P.m.types[cur]}]
             ELSE P
    IN [Q EXCEPT !.s.in_type_block = FALSE, !.s.current_type = None]

(***************************************************************************)
(* PROCEDURE, EXEC-PROC, END-PROC, FUNCTION, END-FUNCTION.                 *)
(***************************************************************************)
\* [p.strip().upper() for p in s.split(',') if p.strip()]
SplitParams(cs) ==
    LET parts == Split(cs, ",") IN
    SelectSeq([i \in DOMAIN parts |-> Upper(Strip(parts[i]))], NonEmpty)

\* \s+KW\s+ fits at the start of cs (re.IGNORECASE)
BlankKwAt(cs, kw) ==
    /\ Len(cs) >= 1 /\ cs[1] = " "
    /\ LET t == SkipBlanks(cs) IN
       /\ StartsWith(Upper(t), kw)
       /\ Len(t) > Len(kw) /\ t[Len(kw) + 1] = " "

\* what is left of cs after \s+KW\s+
AfterBlankKw(cs, kw) == SkipBlanks(Drop(SkipBlanks(cs), Len(kw)))

\* KW\s+ fits at the start of cs (re.IGNORECASE)
KwAt(cs, kw) == StartsWith(Upper(cs), kw) /\ Len(cs) > Len(kw) /\ cs[Len(kw) + 1] = " "

\* What follows a lazy group (.*?) in the PROCEDURE pattern is made of optional
\* groups only, up to the end of the pattern, which re.match does not anchor:
\* it fits at every position of the text.
OptionalTailFits(cs) == TRUE

\* (.*?): the shortest capture after which the rest of the pattern fits
LazyCapture(cs) ==
    LET n == CHOOSE k \in 0..Len(cs) :
                 /\ OptionalTailFits(Drop(cs, k))
                 /\ \A j \in 0..(k - 1) : ~OptionalTailFits(Drop(cs, j))
    IN SubSeq(cs, 1, n)

ProcedureDefinition(name, is_exec, input_params, output_params, exit_params, modifier, line_num) ==
    [ kind |-> "procedure", name |-> name, is_exec |-> is_exec,
      input_params |-> input_params, output_params |-> output_params,
      exit_params |-> exit_params, modifier |-> modifier, local_vars |-> <<>>,
      line_start |-> line_num, line_end |-> 0, body_start |-> 0 ]

\* (?:INPUT\s+(.*?))? at the start of the rest
OptInput(st) ==
    IF KwAt(st.rest, Keyword.INPUT)
    THEN Take([st EXCEPT !.rest = SkipBlanks(Drop(@, Len(Keyword.INPUT)))],
              LazyCapture(SkipBlanks(Drop(st.rest, Len(Keyword.INPUT)))))
    ELSE Take(st, None)

\* (?:\s+OUTPUT\s+(.*?))?
OptOutput(st) ==
    IF BlankKwAt(st.rest, Keyword.OUTPUT)
    THEN Take([st EXCEPT !.rest = AfterBlankKw(@, Keyword.OUTPUT)],
              LazyCapture(AfterBlankKw(st.rest, Keyword.OUTPUT)))
    ELSE Take(st, None)

\* (?:\s+EXIT\s+(.*))?
OptExit(st) ==
    IF BlankKwAt(st.rest, Keyword.EXIT)
    THEN Take([st EXCEPT !.rest = AfterBlankKw(@, Keyword.EXIT)], AfterBlankKw(st.rest, Keyword.EXIT))
    ELSE Take(st, None)

\* the PROCEDURE pattern on the statement without its modifier: [match, groups],
\* the groups being <<input_str, output_str, exit_str>>
procedure_match(stmt) ==
    [ match  |-> Len(stmt) >= 2 /\ Upper(stmt[1]) = Keyword.PROCEDURE /\ IdentPrefix(stmt[2]) # <<>>,
      groups |-> IF Len(stmt) >= 2
                 THEN OptExit(OptOutput(OptInput(Scan(AfterName(stmt))))).groups
                 ELSE <<>> ]

\* the body of `if match:` of _parse_procedure_declaration and of
\* _parse_exec_proc_declaration, up to the block index
register_procedure(P, proc) ==
    [Alloc(P, proc) EXCEPT !.m = add_procedure(@, proc.name, Len(P.h) + 1),
                           !.s.current_procedure = proc.name,
                           !.s.in_procedure = TRUE]

\* sys_proc_blocks[current_sys_proc].procedures[name] = proc, proc being the newest object
in_sys_proc_procedures(P, name) ==
    LET sp == P.s.current_sys_proc IN
    IF sp # None /\ Has(P.m.sys_proc_blocks, sp)
    THEN [P EXCEPT !.h[P.m.sys_proc_blocks[sp]].procedures = Put(@, name, Len(P.h))]
    ELSE P

procedure_matched(P, stmt, g, modifier, line_num) ==
    IF ~g.match THEN P
    ELSE in_sys_proc_procedures(
             register_procedure(P,
                 ProcedureDefinition(Upper(IdentPrefix(stmt[2])), FALSE,
                                     SplitParams(g.groups[1]), SplitParams(g.groups[2]),
                                     SplitParams(g.groups[3]), modifier, line_num)),
             Upper(IdentPrefix(stmt[2])))

procedure_stripped(P, sm, line_num) ==
    procedure_matched(P, sm.stmt, procedure_match(sm.stmt), sm.modifier, line_num)

parse_procedure_declaration(P, statement, line_num) ==
    procedure_stripped(P, StripModifier(statement, AllModifiers), line_num)

\* (?:INPUT\s+([^$]*))?
OptInputRest(st) ==
    IF KwAt(st.rest, Keyword.INPUT)
    THEN Take([st EXCEPT !.rest = SkipBlanks(Drop(@, Len(Keyword.INPUT)))],
              SkipBlanks(Drop(st.rest, Len(Keyword.INPUT))))
    ELSE Take(st, None)

\* EXEC-PROC\s+([A-Z][A-Z0-9_]*)\s*(?:INPUT\s+([^$]*))?
exec_proc_stripped(P, stmt, modifier, line_num) ==
    IF Len(stmt) >= 2 /\ Upper(stmt[1]) = Keyword.EXEC_PROC /\ IdentPrefix(stmt[2]) # <<>>
    THEN register_procedure(P,
             ProcedureDefinition(Upper(IdentPrefix(stmt[2])), TRUE,
                                 SplitParams(OptInputRest(Scan(AfterName(stmt))).groups[1]),
                                 <<>>, <<>>, modifier, line_num))
    ELSE P

exec_proc_modifier(P, sm, line_num) == exec_proc_stripped(P, sm.stmt, sm.modifier, line_num)

parse_exec_proc_declaration(P, statement, line_num) ==
    exec_proc_modifier(P, StripModifier(statement, ExecModifiers), line_num)

handle_end_proc(P, stmt, line_num) ==
    LET cur == P.s.current_procedure
        Q == IF cur # None /\ Has(P.m.procedures, cur)
             THEN [P EXCEPT !.h[P.m.procedures[cur]].line_end = line_num,
                            !.c = @ \cup {P.m.procedures[cur]}]
             ELSE P
    IN [Q EXCEPT !.s.in_procedure = FALSE, !.s.current_procedure = None]

FunctionDefinition(name, input_params, return_type, modifier, line_num) ==
    [ kind |-> "function", name |-> name, input_params |-> input_params,
      return_type |-> return_type, modifier |-> modifier, local_vars |-> <<>>,
      line_start |-> line_num, line_end |-> 0 ]

\* \(([^)]*)\)\s*(.+)? on the text r0 after the name, whose first ) is at cl
function_groups(P, name, r0, cl, modifier, line_num) ==
    IF name # <<>> /\ Len(r0) >= 1 /\ r0[1] = "(" /\ cl > 0
    THEN [Alloc(P, FunctionDefinition(name, SplitParams(SubSeq(r0, 2, cl - 1)),
                                      Strip(SkipBlanks(Drop(r0, cl))), modifier, line_num))
             EXCEPT !.m = add_function(@, name, Len(P.h) + 1),
                    !.s.current_function = name,
                    !.s.in_function = TRUE]
    ELSE P

\* FUNCTION\s+([A-Z][A-Z0-9_]*)\s*\(([^)]*)\)\s*(.+)?
function_stripped(P, stmt, modifier, line_num) ==
    IF Len(stmt) >= 2 /\ Upper(stmt[1]) = Keyword.FUNCTION
    THEN function_groups(P, Upper(IdentPrefix(stmt[2])), AfterName(stmt),
                         IndexOf(AfterName(stmt), ")"), modifier, line_num)
    ELSE P

function_modifier(P, sm, line_num) == function_stripped(P, sm.stmt, sm.modifier, line_num)

parse_function_declaration(P, statement, line_num) ==
    function_modifier(P, StripModifier(statement, AllModifiers), line_num)

handle_end_function(P, stmt, line_num) ==
    LET cur == P.s.current_function
        Q == IF cur # None /\ Has(P.m.functions, cur)
             THEN [P EXCEPT !.h[P.m.functions[cur]].line_end = line_num,
                            !.c = @ \cup {P.m.functions[cur]}]
             ELSE P
    IN [Q EXCEPT !.s.in_function = FALSE, !.s.current_function = None]

parse_cmode(P, statement, line_num) ==
    IF StmtContains(UpperStmt(statement), <<"O">>)
    THEN [P EXCEPT !.m.constant_mode = "O"]
    ELSE [P EXCEPT !.m.constant_mode = "D"]

(***************************************************************************)
(* _parse_statement: dispatch to the handler the classifier names.         *)
(***************************************************************************)
parse_statement(P, stmt, line_num) ==
    LET k == Classify(stmt) IN
    CASE k = "sys_dd_start"   -> parse_sys_dd_start(P, stmt, line_num)
      [] k = "end_sys_dd"     -> handle_end_sys_dd(P, stmt, line_num)
      [] k = "sys_proc_start" -> parse_sys_proc_start(P, stmt, line_num)
      [] k = "end_sys_proc"   -> handle_end_sys_proc(P, stmt, line_num)
      [] k = "loc_dd"         -> [P EXCEPT !.s.in_loc_dd = TRUE]
      [] k = "end_loc_dd"     -> [P EXCEPT !.s.in_loc_dd = FALSE]
      [] k = "vrbl"           -> parse_vrbl_declaration(P, stmt, line_num)
      [] k = "table"          -> parse_table_declaration(P, stmt, line_num)
      [] k = "end_table"      -> handle_end_table(P, stmt, line_num)
      [] k = "field"          -> parse_field_declaration(P, stmt, line_num)
      [] k = "type"           -> parse_type_declaration(P, stmt, line_num)
      [] k = "end_type"       -> handle_end_type(P, stmt, line_num)
      [] k = "procedure"      -> parse_procedure_declaration(P, stmt, line_num)
      [] k = "exec_proc"      -> parse_exec_proc_declaration(P, stmt, line_num)
      [] k = "end_proc"       -> handle_end_proc(P, stmt, line_num)
      [] k = "function"       -> parse_function_declaration(P, stmt, line_num)
      [] k = "end_function"   -> handle_end_function(P, stmt, line_num)
      [] k = "cmode"          -> parse_cmode(P, stmt, line_num)
      [] OTHER                -> P

(***************************************************************************)
(* The statements the parser is run on.  Names come in upper and lower     *)
(* case; every handler gets statements its pattern accepts and statements  *)
(* the classifier routes to it but its pattern rejects.                    *)
(***************************************************************************)
Stmts ==
    { <<<<"A">>, Keyword.SYS_DD>>, <<<<"a">>, Keyword.SYS_DD>>, <<Keyword.SYS_DD>>,
      <<Keyword.END_SYS_DD, <<"B">>>>,
      <<<<"B">>, Keyword.SYS_PROC>>, <<<<"B">>, Keyword.SYS_PROC_REN>>, <<Keyword.SYS_PROC>>,
      <<Keyword.END_SYS_PROC, <<"A">>>>,
      <<Keyword.LOC_DD>>,
      <<Keyword.END_LOC_DD>>,
      <<Keyword.VRBL, <<"A">>, <<"I">>, <<"1","6">>, <<"S">> >>,
      <<Keyword.VRBL, <<"b">>, <<"F">> >>,
      <<Keyword.VRBL, <<"(","a",",">>, <<"B",")">>, <<"A">>, <<"3","2">>, <<"S">>, <<"1","6">> >>,
      <<Keyword.EXTDEF, Keyword.VRBL, <<"B">>, <<"H">>, <<"8">> >>,
      <<Keyword.VRBL, <<"A">>>>,
      <<Keyword.TABLE, <<"A">>, <<"V">>, <<"M","E","D","I","U","M">>, <<"1","0","0">> >>,
      <<Keyword.TABLE, <<"b">>, <<"H">> >>,
      <<Keyword.TABLE, <<"A">>>>,
      <<Keyword.END_TABLE, <<"B">>>>,
      <<Keyword.FIELD, <<"A">>, <<"I">>, <<"1","6">>, <<"S">> >>,
      <<Keyword.FIELD, <<"b">>, <<"H">>, <<"8">> >>,
      <<Keyword.FIELD, <<"9">>>>,
      <<Keyword.TYPE, <<"A">>, <<"'","O","F","F","'",",">>, <<"'","O","N","'">> >>,
      <<Keyword.TYPE, <<"B">>, <<"D","E","N","S","E">> >>,
      <<Keyword.TYPE, <<"a">>>>,
      <<Keyword.TYPE, <<"9">>>>,
      <<Keyword.END_TYPE, <<"A">>>>,
      <<Keyword.PROCEDURE, <<"A">>, Keyword.INPUT, <<"A",",">>, <<"B">>, Keyword.OUTPUT, <<"C">> >>,
      <<Keyword.PROCEDURE, <<"b">>, Keyword.EXIT, <<"E">> >>,
      <<Keyword.LOCREF, Keyword.PROCEDURE, <<"B">>>>,
      <<Keyword.PROCEDURE, <<"9">>>>,
      <<Keyword.EXEC_PROC, <<"A">>, Keyword.INPUT, <<"a",",">>, <<"B">>>>,
      <<Keyword.EXEC_PROC, <<"9">>>>,
      <<Keyword.END_PROC, <<"A">>>>,
      <<Keyword.FUNCTION, <<"A","(","a",",">>, <<"B",")">>, <<"I">> >>,
      <<Keyword.FUNCTION, <<"B">>>>,
      <<Keyword.END_FUNCTION, <<"B">>>>,
      <<Keyword.CMODE, <<"D">> >>, <<Keyword.CMODE, <<"O">> >>,
      <<<<"S","E","T">>, <<"A">>>> }

\* the statements the classifier routes to each handler
Routing == [ k \in { Classify(s) : s \in Stmts } |-> { s \in Stmts : Classify(s) = k } ]

(***************************************************************************)
(* The parser as a state machine: parse() reads the lines in order and     *)
(* hands each completed statement, with the index of the line its `$` is   *)
(* on, to _parse_statement.  One action per handler; NextLine is the loop  *)
(* moving to the next physical line.                                       *)
(***************************************************************************)
Bundle == [ m |-> model, h |-> heap, s |-> self, c |-> closed, b |-> statement_buffer, t |-> handed ]

\* the handler has returned, leaving model, objects and parser fields as in R
Returns(R) ==
    /\ model' = R.m
    /\ heap' = R.h
    /\ self' = R.s
    /\ closed' = R.c

\* the parser as it is but with no variable declared yet, and what a handler
\* started from it has declared on return: key -> entity
Undeclared == [Bundle EXCEPT !.m.variables = <<>>]

Declares(R) == R.m.variables

\* parse() has made the new model and reset the parser; CMS2LanguageServer.__init__
Init ==
    /\ model = FreshParser.m
    /\ heap = FreshParser.h
    /\ self = FreshParser.s
    /\ closed = FreshParser.c
    /\ line = 0
    /\ nstmt = 0
    /\ declared = <<>>
    /\ lines = <<>>
    /\ statement_buffer = <<>>
    /\ handed = <<>>
    /\ before = <<>>
    /\ documents = <<>>
    /\ models = <<>>
    /\ parsers = <<>>
    /\ running = TRUE
    /\ stdout = <<>>
    /\ requested = <<>>
    /\ current = <<>>
    /\ asof = <<>>
    /\ nmsg = 0

NextLine ==
    /\ line + 1 < MaxLines
    /\ line' = line + 1
    /\ UNCHANGED <<model, heap, self, closed, nstmt, declared, tvars, svars>>

SysDdStart ==
    /\ nstmt < MaxStmts
    /\ \E s \in Routing["sys_dd_start"] : Returns(parse_sys_dd_start(Bundle, s, line))
    /\ nstmt' = nstmt + 1
    /\ UNCHANGED <<line, declared, tvars, svars>>
EndSysDd ==
    /\ nstmt < MaxStmts
    /\ \E s \in Routing["end_sys_dd"] : Returns(handle_end_sys_dd(Bundle, s, line))
    /\ nstmt' = nstmt + 1
    /\ UNCHANGED <<line, declared, tvars, svars>>
SysProcStart ==
    /\ nstmt < MaxStmts
    /\ \E s \in Routing["sys_proc_start"] : Returns(parse_sys_proc_start(Bundle, s, line))
    /\ nstmt' = nstmt + 1
    /\ UNCHANGED <<line, declared, tvars, svars>>
EndSysProc ==
    /\ nstmt < MaxStmts
    /\ \E s \in Routing["end_sys_proc"] : Returns(handle_end_sys_proc(Bundle, s, line))
    /\ nstmt' = nstmt + 1
    /\ UNCHANGED <<line, declared, tvars, svars>>
LocDd ==
    /\ nstmt < MaxStmts
    /\ \E s \in Routing["loc_dd"] : Returns([Bundle EXCEPT !.s.in_loc_dd = TRUE])
    /\ nstmt' = nstmt + 1
    /\ UNCHANGED <<line, declared, tvars, svars>>
EndLocDd ==
    /\ nstmt < MaxStmts
    /\ \E s \in Routing["end_loc_dd"] : Returns([Bundle EXCEPT !.s.in_loc_dd = FALSE])
    /\ nstmt' = nstmt + 1
    /\ UNCHANGED <<line, declared, tvars, svars>>
Vrbl ==
    /\ nstmt < MaxStmts
    /\ \E s \in Routing["vrbl"] :
         /\ Returns(parse_vrbl_declaration(Bundle, s, line))
         /\ declared' = Declares(parse_vrbl_declaration(Undeclared, s, line)) @@ declared
    /\ nstmt' = nstmt + 1
    /\ UNCHANGED <<line, tvars, svars>>
Table ==
    /\ nstmt < MaxStmts
    /\ \E s \in Routing["table"] : Returns(parse_table_declaration(Bundle, s, line))
    /\ nstmt' = nstmt + 1
    /\ UNCHANGED <<line, declared, tvars, svars>>
EndTable ==
    /\ nstmt < MaxStmts
    /\ \E s \in Routing["end_table"] : Returns(handle_end_table(Bundle, s, line))
    /\ nstmt' = nstmt + 1
    /\ UNCHANGED <<line, declared, tvars, svars>>
Field ==
    /\ nstmt < MaxStmts
    /\ \E s \in Routing["field"] : Returns(parse_field_declaration(Bundle, s, line))
    /\ nstmt' = nstmt + 1
    /\ UNCHANGED <<line, declared, tvars, svars>>
Type ==
    /\ nstmt < MaxStmts
    /\ \E s \in Routing["type"] : Returns(parse_type_declaration(Bundle, s, line))
    /\ nstmt' = nstmt + 1
    /\ UNCHANGED <<line, declared, tvars, svars>>
EndType ==
    /\ nstmt < MaxStmts
    /\ \E s \in Routing["end_type"] : Returns(handle_end_type(Bundle, s, line))
    /\ nstmt' = nstmt + 1
    /\ UNCHANGED <<line, declared, tvars, svars>>
Procedure ==
    /\ nstmt < MaxStmts
    /\ \E s \in Routing["procedure"] : Returns(parse_procedure_declaration(Bundle, s, line))
    /\ nstmt' = nstmt + 1
    /\ UNCHANGED <<line, declared, tvars, svars>>
ExecProc ==
    /\ nstmt < MaxStmts
    /\ \E s \in Routing["exec_proc"] : Returns(parse_exec_proc_declaration(Bundle, s, line))
    /\ nstmt' = nstmt + 1
    /\ UNCHANGED <<line, declared, tvars, svars>>
EndProc ==
    /\ nstmt < MaxStmts
    /\ \E s \in Routing["end_proc"] : Returns(handle_end_proc(Bundle, s, line))
    /\ nstmt' = nstmt + 1
    /\ UNCHANGED <<line, declared, tvars, svars>>
Function ==
    /\ nstmt < MaxStmts
    /\ \E s \in Routing["function"] : Returns(parse_function_declaration(Bundle, s, line))
    /\ nstmt' = nstmt + 1
    /\ UNCHANGED <<line, declared, tvars, svars>>
EndFunction ==
    /\ nstmt < MaxStmts
    /\ \E s \in Routing["end_function"] : Returns(handle_end_function(Bundle, s, line))
    /\ nstmt' = nstmt + 1
    /\ UNCHANGED <<line, declared, tvars, svars>>
Cmode ==
    /\ nstmt < MaxStmts
    /\ \E s \in Routing["cmode"] : Returns(parse_cmode(Bundle, s, line))
    /\ nstmt' = nstmt + 1
    /\ UNCHANGED <<line, declared, tvars, svars>>
Ignored ==
    /\ nstmt < MaxStmts
    /\ \E s \in Routing["ignored"] : Returns(Bundle)
    /\ nstmt' = nstmt + 1
    /\ UNCHANGED <<line, declared, tvars, svars>>

Next ==
    \/ NextLine
    \/ SysDdStart \/ EndSysDd \/ SysProcStart \/ EndSysProc \/ LocDd \/ EndLocDd
    \/ Vrbl \/ Table \/ EndTable \/ Field \/ Type \/ EndType
    \/ Procedure \/ ExecProc \/ EndProc \/ Function \/ EndFunction
    \/ Cmode \/ Ignored

Spec == Init /\ [][Next]_vars

(***************************************************************************)
(* parse() as a whole.  A text is the sequence of its physical lines       *)
(* (cms2_code.split('\n'), never empty), a line the sequence of its        *)
(* characters.                                                             *)
(***************************************************************************)
\* _remove_comments that takes nothing out
remove_comments_kept(ln, i, in_comment) == SubSeq(ln, i, Len(ln))

\* _remove_comments from position i on (i counts from 1): each '' toggles
\* in_comment, and the characters read while in_comment are dropped
RECURSIVE remove_comments(_, _, _)
remove_comments(ln, i, in_comment) ==
    IF i > Len(ln) THEN <<>>
    ELSE IF i + 1 <= Len(ln) /\ ln[i] = "'" /\ ln[i + 1] = "'"
         THEN remove_comments(ln, i + 2, ~in_comment)
    ELSE IF ~in_comment THEN <<ln[i]>> \o remove_comments(ln, i + 1, in_comment)
    ELSE remove_comments(ln, i + 1, in_comment)

\* _parse_statement(statement, i): the handlers work on the statement's words.
\* The words stand for the statement text with one blank between them, which
\* is the text itself when its words are separated by single blanks; a run of
\* several blanks inside a statement is not kept.
Handover(P, statement, i) ==
    IF statement = <<>> THEN P
    ELSE [parse_statement(P, Words(statement), i)
            EXCEPT !.t = Append(@, [statement |-> statement, line_num |-> i])]

\* `while '$' in statement_buffer`: the text before the first `$` is the
\* statement, the text after it the new buffer, both stripped
RECURSIVE ParseStmts(_, _, _)
ParseStmts(P, dollar_pos, i) ==
    IF dollar_pos = 0 THEN P
    ELSE ParseStmts(Handover([P EXCEPT !.b = Strip(SubSeq(@, dollar_pos + 1, Len(@)))],
                             Strip(SubSeq(P.b, 1, dollar_pos - 1)), i),
                    IndexOf(Strip(SubSeq(P.b, dollar_pos + 1, Len(P.b))), "$"), i)

\* the for-body run with statement_buffer += stripped
ParseLine_unspaced(P, stripped, i) ==
    IF stripped = <<>> THEN P
    ELSE ParseStmts([P EXCEPT !.b = @ \o stripped], IndexOf(P.b \o stripped, "$"), i)

\* the body of `for i, line in enumerate(self.lines)`, `stripped` being
\* self._remove_comments(line).strip()
ParseLine(P, stripped, i) ==
    IF stripped = <<>> THEN P
    ELSE ParseStmts([P EXCEPT !.b = @ \o <<" ">> \o stripped],
                    IndexOf(P.b \o <<" ">> \o stripped, "$"), i)

\* the loop over enumerate(self.lines), from line i on
RECURSIVE ParseLines(_, _, _)
ParseLines(P, text, i) ==
    IF i >= Len(text) THEN P
    ELSE ParseLines(ParseLine(P, Strip(remove_comments(text[i + 1], 1, FALSE)), i), text, i + 1)

parse(cms2_code) == ParseLines(FreshParser, cms2_code, 0)

(***************************************************************************)
(* parse() line by line: the parser is run on every text of up to MaxLines *)
(* lines drawn from SourceLines.  `line` counts the lines read so far.     *)
(***************************************************************************)
SourceLines ==
    { <<"V","R","B","L"," ","X"," ","I"," ","1","6"," ","S"," ","'","'"," ","c","o","s","t"," ","$"," ","n","o","w"," ","'","'"," ","$">>,
      <<"V","R","B","L"," ","A">>,
      <<"I"," ","8"," ","U"," ","$"," ","V","R","B","L"," ","B"," ","F"," ","$">>,
      <<>>,
      <<" ","$"," ","'","'","c","'","'"," ","$"," "," ","T","A","B","L","E"," ","T"," ","V">>,
      <<"E","N","D","-","T","A","B","L","E"," ","T"," ","$"," ","'","'","o","p","e","n"," ","$">>,
      <<" "," ","'","'","a","l","l"," ","$","'","'"," ">>,
      <<"V","R","B","L"," ","C"," ","F"," ","'","'","a","'","'","'","'","b"," ","$","'","'"," ","$"," ","'","'","'","'">> }

Documents == UNION { [1..n -> SourceLines] : n \in 1..MaxLines }

ScanInit ==
    /\ model = FreshParser.m
    /\ heap = FreshParser.h
    /\ self = FreshParser.s
    /\ closed = FreshParser.c
    /\ line = 0
    /\ nstmt = 0
    /\ declared = <<>>
    /\ lines \in Documents
    /\ statement_buffer = <<>>
    /\ handed = <<>>
    /\ before = <<>>
    /\ documents = <<>>
    /\ models = <<>>
    /\ parsers = <<>>
    /\ running = TRUE
    /\ stdout = <<>>
    /\ requested = <<>>
    /\ current = <<>>
    /\ asof = <<>>
    /\ nmsg = 0

\* the for-body has run on line `line`, leaving the parser as in R
Reads(R) ==
    /\ Returns(R)
    /\ statement_buffer' = R.b
    /\ handed' = R.t
    /\ nstmt' = Len(R.t)

ReadLine ==
    /\ line < Len(lines)
    /\ Reads(ParseLine(Bundle, Strip(remove_comments(lines[line + 1], 1, FALSE)), line))
    /\ line' = line + 1
    /\ UNCHANGED <<lines, before, declared, svars>>

ScanNext == ReadLine

ScanSpec == ScanInit /\ [][ScanNext]_vars

(***************************************************************************)
(* One parser instance that parses one text after another: parse() is      *)
(* called again when the previous call has returned.  The texts are those  *)
(* of up to MaxTextLines lines of ResidueLines, which leave blocks open, a *)
(* statement unfinished and the constant mode changed.                     *)
(***************************************************************************)
MaxTextLines == 2

ResidueLines ==
    { <<"D","D","X"," ","S","Y","S","-","D","D"," ","$">>,
      <<"T","A","B","L","E"," ","T"," ","V"," ","$"," ","F","I","E","L","D">>,
      <<"X"," ","I"," ","8"," ","U"," ","$">>,
      <<"C","M","O","D","E"," ","O"," ","$"," ","E","X","E","C","-","P","R","O","C">>,
      <<"P"," ","S","Y","S","-","P","R","O","C"," ","$"," ","F","U","N","C","T","I","O","N"," ","F","(","A",")"," ","I"," ","$">>,
      <<"T","Y","P","E"," ","R"," ","$"," ","V","R","B","L"," ","A"," ","I"," ","8"," ","U"," ","$"," ","(","L","O","C">>,
      <<"$","V","R","B","L"," ","A","$","T","A","B","L","E"," ","9","$","F","I","E","L","D"," ","Y"," ","B","$">>,
      <<"$","P","R","O","C","E","D","U","R","E"," ","9","$","E","X","E","C","-","P","R","O","C"," ","9","$">>,
      <<"$","F","U","N","C","T","I","O","N"," ","G","$","S","Y","S","-","D","D","$","T","Y","P","E"," ","9","$">> }

ResidueTexts == UNION { [1..n -> ResidueLines] : n \in 1..MaxTextLines }

\* a _reset_state that resets nothing
reset_state_kept(S) == S

\* _reset_state on the fields S of a parser
reset_state(S) ==
    [S EXCEPT !.in_sys_dd = FALSE, !.current_sys_dd = None,
              !.in_sys_proc = FALSE, !.current_sys_proc = None,
              !.in_table_block = FALSE, !.current_table = None,
              !.in_type_block = FALSE, !.current_type = None,
              !.in_procedure = FALSE, !.current_procedure = None,
              !.in_function = FALSE, !.current_function = None,
              !.in_loc_dd = FALSE]

ReparseInit ==
    /\ model = FreshParser.m
    /\ heap = FreshParser.h
    /\ self = FreshParser.s
    /\ closed = FreshParser.c
    /\ line = 0
    /\ nstmt = 0
    /\ declared = <<>>
    /\ lines \in ResidueTexts
    /\ statement_buffer = <<>>
    /\ handed = <<>>
    /\ before = <<>>
    /\ documents = <<>>
    /\ models = <<>>
    /\ parsers = <<>>
    /\ running = TRUE
    /\ stdout = <<>>
    /\ requested = <<>>
    /\ current = <<>>
    /\ asof = <<>>
    /\ nmsg = 0

\* parse() is called on the parser that has parsed `lines`: a new model, the
\* new lines, _reset_state and an empty statement_buffer
ParseAgain ==
    /\ line = Len(lines)
    /\ \E cms2_code \in ResidueTexts :
         /\ lines' = cms2_code
         /\ before' = <<lines>>
    /\ model' = NewModel
    /\ heap' = <<>>
    /\ self' = reset_state(self)
    /\ closed' = {}
    /\ statement_buffer' = <<>>
    /\ handed' = <<>>
    /\ line' = 0
    /\ nstmt' = 0
    /\ UNCHANGED <<declared, svars>>

ReparseNext == ReadLine \/ ParseAgain

ReparseSpec == ReparseInit /\ [][ReparseNext]_vars

(***************************************************************************)
(* The language server.  run() reads one message at a time and hands it    *)
(* to _handle_message; a message put on stdin while the loop runs is read  *)
(* and handled in one step.                                                *)
(***************************************************************************)
URIs == { "file:///a.cms2", "file:///b.cms2" }

Texts ==
    { << <<"D","D","X"," ","S","Y","S","-","D","D"," ","$">>,
         <<"V","R","B","L"," ","A","L","T"," ","I"," ","1","6"," ","S"," ","$">>,
         <<"E","N","D","-","S","Y","S","-","D","D"," ","D","D","X"," ","$">>,
         <<>> >>,
      << <<"V","R","B","L"," ","M","A","X","_","A","L","T"," ","I"," ","1","6"," ","S"," ","$">>,
         <<"V","R","B","L"," ","(","l","a","t",","," ","L","O","N",")"," ","F"," ","$">>,
         <<"T","A","B","L","E"," ","L","O","N"," ","V"," ","$"," ","s","e","t"," ","l","a","t">>,
         <<"E","N","D","-","T","A","B","L","E"," ","L","O","N">> >> }

\* the contentChanges arrays of a didChange
ChangeLists == { <<>> } \cup { <<t>> : t \in Texts }
               \cup { c \in Texts \X Texts : c[1] # c[2] }

\* dict.get(k): None when the key is missing
Get(d, k) == IF Has(d, k) THEN <<d[k]>> ELSE None

\* a del that removes nothing
Del_kept(d, k) == d

\* del d[k] when k is in d
Del(d, k) == [x \in DOMAIN d \ {k} |-> d[x]]

\* the next id the client uses
NextId == Len(requested) + 1

Response(msg_id, result) == [ id |-> msg_id, result |-> result ]

\* _handle_initialize: the capabilities
handle_initialize(msg_id) ==
    Response(msg_id, << [ capabilities |-> [ textDocumentSync |-> 1,
                                              completionProvider |-> TRUE,
                                              hoverProvider |-> TRUE,
                                              definitionProvider |-> TRUE,
                                              referencesProvider |-> TRUE,
                                              documentSymbolProvider |-> TRUE ],
                           serverInfo |-> "CMS-2 Language Server" ] >>)

handle_shutdown(msg_id) == Response(msg_id, None)

\* an answer to an unknown request under another id
unknown_request_other_id(msg_id) == Response(msg_id + 1, None)

\* the else branch of the request dispatch
unknown_request(msg_id) == Response(msg_id, None)

(***************************************************************************)
(* The queries.  A handler reads self.parsers.get(uri), self.models.get(uri)*)
(* and self.documents.get(uri): `parser`, `model` and `text` below are     *)
(* these, None when the uri has no entry.  A JSON list whose order is that *)
(* of a set or of a registry (completion items, document symbols) is       *)
(* modelled by the set of its entries.                                     *)
(***************************************************************************)
\* CMS2SemanticParser.RESERVED_WORDS
RESERVED_WORDS ==
    { <<"A","B","S">>, <<"A","L","G">>, <<"A","N","D">>, <<"A","U","T","O","-","D","D">>,
      <<"B","A","S","E">>, <<"B","E","G","I","N">>, <<"B","I","T">>, <<"B","Y">>,
      <<"C","A","S","E">>, <<"C","A","T">>, <<"C","H","A","R">>, <<"C","H","E","C","K","I","D">>,
      <<"C","I","R","C">>, <<"C","L","O","S","E">>, <<"C","M","O","D","E">>,
      <<"C","O","M","M","E","N","T">>, <<"C","O","M","P">>,
      <<"C","O","N","V","E","R","T","I","N">>, <<"C","O","N","V","E","R","T","O","U","T">>,
      <<"C","O","R","A","D">>, <<"C","O","R","R","E","C","T">>, <<"C","S","W","I","T","C","H">>,
      <<"D","A","T","A">>, <<"D","A","T","A","P","O","O","L">>, <<"D","E","B","U","G">>,
      <<"D","E","C","O","D","E">>, <<"D","E","F","I","D">>, <<"D","E","N","S","E">>,
      <<"D","E","P">>, <<"D","I","R","E","C","T">>, <<"D","I","S","P","L","A","Y">>,
      <<"E","L","S","E">>, <<"E","L","S","I","F">>, <<"E","N","C","O","D","E">>, <<"E","N","D">>,
      <<"E","N","D","-","A","U","T","O","-","D","D">>,
      <<"E","N","D","-","F","U","N","C","T","I","O","N">>,
      <<"E","N","D","-","L","O","C","-","D","D">>, <<"E","N","D","-","P","-","S","W">>,
      <<"E","N","D","-","P","R","O","C">>, <<"E","N","D","-","S","W","I","T","C","H">>,
      <<"E","N","D","-","S","Y","S","-","D","D">>,
      <<"E","N","D","-","S","Y","S","-","P","R","O","C">>, <<"E","N","D","-","T","A","B","L","E">>,
      <<"E","N","D","-","T","Y","P","E">>, <<"E","N","D","F","I","L","E">>, <<"E","Q">>,
      <<"E","Q","U","A","L","S">>, <<"E","V","E","N","P">>, <<"E","X","C","H","A","N","G","E">>,
      <<"E","X","E","C">>, <<"E","X","E","C","-","P","R","O","C">>, <<"E","X","I","T">>,
      <<"E","X","T","D","E","F">>, <<"E","X","T","R","E","F">>, <<"F","I","E","L","D">>,
      <<"F","I","L","E">>, <<"F","I","N","D">>, <<"F","O","R">>, <<"F","O","R","M","A","T">>,
      <<"F","O","U","N","D">>, <<"F","R","O","M">>, <<"F","U","N","C","T","I","O","N">>,
      <<"G","O","T","O">>, <<"G","T">>, <<"G","T","E","Q">>, <<"H","E","A","D">>, <<"I","F">>,
      <<"I","N","D","I","R","E","C","T">>, <<"I","N","P","U","T">>,
      <<"I","N","P","U","T","L","I","S","T">>, <<"I","N","T","O">>,
      <<"I","N","V","A","L","I","D">>, <<"K","E","Y","1">>, <<"K","E","Y","2">>,
      <<"K","E","Y","3">>, <<"L","-","S","W","I","T","C","H">>, <<"L","I","B","S">>,
      <<"L","O","A","D","-","V","R","B","L">>, <<"L","O","C","-","D","D">>,
      <<"L","O","C","-","I","N","D","E","X">>, <<"L","O","C","R","E","F">>, <<"L","O","G">>,
      <<"L","O","O","P">>, <<"L","T">>, <<"L","T","E","Q">>, <<"M","E","A","N","S">>,
      <<"M","E","D","I","U","M">>, <<"M","O","D","E">>, <<"N","I","T","E","M","S">>,
      <<"N","O","N","E">>, <<"N","O","T">>, <<"N","O","T","F","O","U","N","D">>, <<"O","C","M">>,
      <<"O","O","D","P">>, <<"O","P","E","N">>, <<"O","P","T","I","O","N","S">>, <<"O","R">>,
      <<"O","U","T","P","U","T">>, <<"O","U","T","P","U","T","L","I","S","T">>,
      <<"O","V","E","R","F","L","O","W">>, <<"O","V","E","R","L","A","Y">>,
      <<"P","-","S","W","I","T","C","H">>, <<"P","R","I","N","T">>,
      <<"P","R","O","C","E","D","U","R","E">>, <<"P","T","R","A","C","E">>,
      <<"P","U","N","C","H">>, <<"R","A","N","G","E">>, <<"R","E","A","D">>, <<"R","E","G","S">>,
      <<"R","E","S","U","M","E">>, <<"R","E","T","U","R","N">>, <<"S","A","V","I","N","G">>,
      <<"S","E","T">>, <<"S","H","I","F","T">>, <<"S","N","A","P">>, <<"S","P","I","L","L">>,
      <<"S","T","O","P">>, <<"S","T","R","I","N","G","F","O","R","M">>, <<"S","W","A","P">>,
      <<"S","W","I","T","C","H">>, <<"S","Y","S","-","D","D">>,
      <<"S","Y","S","-","I","N","D","E","X">>, <<"S","Y","S","-","P","R","O","C">>,
      <<"S","Y","S","-","P","R","O","C","-","R","E","N">>, <<"S","Y","S","T","E","M">>,
      <<"T","A","B","L","E">>, <<"T","H","E","N">>, <<"T","H","R","U">>, <<"T","O">>,
      <<"T","R","A","C","E">>, <<"T","R","A","N","S","R","E","F">>, <<"T","Y","P","E">>,
      <<"U","N","T","I","L">>, <<"U","S","I","N","G">>, <<"V","A","L","I","D">>,
      <<"V","A","R","Y">>, <<"V","A","R","Y","I","N","G">>, <<"V","R","B","L">>,
      <<"W","H","I","L","E">>, <<"W","I","T","H">>, <<"W","I","T","H","I","N">>, <<"X","O","R">> }

\* CMS2SemanticParser.PREDEFINED_FUNCTIONS
PREDEFINED_FUNCTIONS ==
    { <<"A","C","D","S">>, <<"A","C","D","S","2">>, <<"A","C","O","S">>, <<"A","C","O","S","2">>,
      <<"A","L","D","G">>, <<"A","L","O","G">>, <<"A","N","D","F">>, <<"A","S","I","N">>,
      <<"A","S","I","N","2">>, <<"A","T","A","N">>, <<"A","T","A","N","2">>, <<"B","A","M","S">>,
      <<"C","N","T">>, <<"C","O","M","P","F">>, <<"C","O","N","F">>, <<"C","O","S">>,
      <<"D","R","F">>, <<"E","X","P">>, <<"F","I","L">>, <<"F","I","R","S","T">>,
      <<"I","C","D","S">>, <<"I","C","O","S">>, <<"I","E","X","P">>, <<"I","S","I","N">>,
      <<"L","A","S","T">>, <<"L","E","N","G","T","H">>, <<"L","N">>, <<"P","O","S">>,
      <<"P","R","E","D">>, <<"R","A","D">>, <<"R","E","M">>, <<"R","O","T","A","T","E","H","P">>,
      <<"R","O","T","A","T","E","P">>, <<"S","C","A","L","F">>, <<"S","I","N">>,
      <<"S","U","C","C">>, <<"T","D","E","F">>, <<"V","E","C","T","O","R","H","P">>,
      <<"V","E","C","T","O","R","P">>, <<"X","O","R","F">> }

\* a character \w takes
IsWordChar(c) == c \in Letters \/ c \in Digits \/ c = "_"

\* the run of \w characters of ln that a \b...\b match with
\* match.start() <= character <= match.end() has to span: (first, last), or None
WordRun(ln, character) ==
    LET p == IF character + 1 <= Len(ln) /\ IsWordChar(ln[character + 1]) THEN character + 1
             ELSE IF 1 <= character /\ character <= Len(ln) /\ IsWordChar(ln[character])
                  THEN character ELSE 0
    IN IF p = 0 THEN None
       ELSE << << CHOOSE s \in 1..p : /\ \A q \in s..p : IsWordChar(ln[q])
                                       /\ (s = 1 \/ ~IsWordChar(ln[s - 1])),
                  CHOOSE e \in p..Len(ln) : /\ \A q \in p..e : IsWordChar(ln[q])
                                             /\ (e = Len(ln) \/ ~IsWordChar(ln[e + 1])) >> >>

\* _get_word_at_position with match.start() <= character < match.end()
get_word_before_end(ln, character) ==
    LET r == WordRun(ln, character) IN
    IF r # None /\ character < r[1][2] /\ IsIdent(SubSeq(ln, r[1][1], r[1][2]))
    THEN <<Upper(SubSeq(ln, r[1][1], r[1][2]))>> ELSE None

\* _get_word_at_position: the match of \b([A-Z][A-Z0-9_]*)\b under re.IGNORECASE
\* at the position, uppercased
get_word_at_position(ln, character) ==
    LET r == WordRun(ln, character) IN
    IF r # None /\ IsIdent(SubSeq(ln, r[1][1], r[1][2]))
    THEN <<Upper(SubSeq(ln, r[1][1], r[1][2]))>> ELSE None

\* get_hover_info, `word_match`: the match of \b([A-Z][A-Z0-9]*)\b under
\* re.IGNORECASE at the position, uppercased
word_match(ln, column) ==
    LET r == WordRun(ln, column) IN
    IF r # None /\ IsIdent(SubSeq(ln, r[1][1], r[1][2]))
                /\ \A q \in r[1][1]..r[1][2] : ln[q] # "_"
    THEN <<Upper(SubSeq(ln, r[1][1], r[1][2]))>> ELSE None

\* text.split('\n') of self.documents.get(uri, '')
LinesOf(text) == IF text = None THEN << <<>> >> ELSE text[1]

\* `if text`: the text is there and is not the empty string
Truthy(text) == text # None /\ text[1] # << <<>> >>

\* get_table, get_procedure, get_function, get_type: the entity, or None
Entity(M, registry, name) == IF Has(registry, name) THEN <<M.h[registry[name]]>> ELSE None

\* get_hover_info after the word is found: the first of variable, table,
\* procedure, function, type, keyword, predefined function that has the word.
\* Of the payload, `type`, `name` and the declaration line are kept.
hover_info(M, word) ==
    IF get_variable(M.m, word) # None
    THEN << [type |-> "variable", name |-> get_variable(M.m, word)[1].name,
             line |-> get_variable(M.m, word)[1].line_number] >>
    ELSE IF Has(M.m.tables, word)
    THEN << [type |-> "table", name |-> Entity(M, M.m.tables, word)[1].name,
             line |-> Entity(M, M.m.tables, word)[1].line_start] >>
    ELSE IF Has(M.m.procedures, word)
    THEN << [type |-> "procedure", name |-> Entity(M, M.m.procedures, word)[1].name,
             line |-> Entity(M, M.m.procedures, word)[1].line_start] >>
    ELSE IF Has(M.m.functions, word)
    THEN << [type |-> "function", name |-> Entity(M, M.m.functions, word)[1].name,
             line |-> Entity(M, M.m.functions, word)[1].line_start] >>
    ELSE IF Has(M.m.types, word)
    THEN << [type |-> "type", name |-> Entity(M, M.m.types, word)[1].name,
             line |-> Entity(M, M.m.types, word)[1].line_start] >>
    ELSE IF word \in RESERVED_WORDS THEN << [type |-> "keyword", name |-> word] >>
    ELSE IF word \in PREDEFINED_FUNCTIONS
    THEN << [type |-> "predefined_function", name |-> word] >>
    ELSE None

\* CMS2SemanticParser.get_hover_info on the parser's model and lines
get_hover_info(M, lns, lineno, column) ==
    IF lineno >= Len(lns) \/ word_match(lns[lineno + 1], column) = None THEN None
    ELSE hover_info(M, word_match(lns[lineno + 1], column)[1])

\* _handle_hover: contents built from the hover info, or null
handle_hover(parser, mdl, text, lineno, character) ==
    IF parser # None /\ mdl # None /\ lineno < Len(LinesOf(text))
    THEN get_hover_info(mdl[1], LinesOf(text), lineno, character)
    ELSE None

\* _find_definition: the declaration line of the first of variable, table,
\* procedure, function, type that has the name
find_definition(M, name) ==
    IF get_variable(M.m, name) # None THEN <<get_variable(M.m, name)[1].line_number>>
    ELSE IF Has(M.m.tables, name) THEN <<Entity(M, M.m.tables, name)[1].line_start>>
    ELSE IF Has(M.m.procedures, name) THEN <<Entity(M, M.m.procedures, name)[1].line_start>>
    ELSE IF Has(M.m.functions, name) THEN <<Entity(M, M.m.functions, name)[1].line_start>>
    ELSE IF Has(M.m.types, name) THEN <<Entity(M, M.m.types, name)[1].line_start>>
    ELSE None

\* _handle_definition with `if definition_line:` for `is not None`
handle_definition_if_line(mdl, text, lineno, character) ==
    IF /\ mdl # None /\ Truthy(text) /\ lineno < Len(text[1])
       /\ get_word_at_position(text[1][lineno + 1], character) # None
       /\ find_definition(mdl[1], get_word_at_position(text[1][lineno + 1], character)[1])
             \notin {None, <<0>>}
    THEN << [line |-> find_definition(mdl[1],
                         get_word_at_position(text[1][lineno + 1], character)[1])[1]] >>
    ELSE None

\* _handle_definition: the range (line, 0)..(line, 0) in the same uri, or null
handle_definition(mdl, text, lineno, character) ==
    IF /\ mdl # None /\ Truthy(text) /\ lineno < Len(text[1])
       /\ get_word_at_position(text[1][lineno + 1], character) # None
       /\ find_definition(mdl[1], get_word_at_position(text[1][lineno + 1], character)[1]) # None
    THEN << [line |-> find_definition(mdl[1],
                         get_word_at_position(text[1][lineno + 1], character)[1])[1]] >>
    ELSE None

\* pattern.finditer(line_text) for \bword\b under re.IGNORECASE: the runs of
\* \w characters that read `word`, as (start, end), from position p on
RECURSIVE Matches(_, _, _)
Matches(ln, word, p) ==
    IF p > Len(ln) THEN <<>>
    ELSE IF WordRun(ln, p - 1) # None /\ WordRun(ln, p - 1)[1][1] = p
    THEN (IF Upper(SubSeq(ln, p, WordRun(ln, p - 1)[1][2])) = word
          THEN << [start |-> p - 1, end |-> WordRun(ln, p - 1)[1][2]] >> ELSE <<>>)
         \o Matches(ln, word, WordRun(ln, p - 1)[1][2] + 1)
    ELSE Matches(ln, word, p + 1)

\* the loop over enumerate(lines), from line i on
RECURSIVE AllMatches(_, _, _)
AllMatches(lns, word, i) ==
    IF i >= Len(lns) THEN <<>>
    ELSE [k \in DOMAIN Matches(lns[i + 1], word, 1) |->
            [line |-> i, start |-> Matches(lns[i + 1], word, 1)[k].start,
             end |-> Matches(lns[i + 1], word, 1)[k].end]]
         \o AllMatches(lns, word, i + 1)

\* _handle_references: the ranges of the occurrences of the word, in order
handle_references(text, lineno, character) ==
    IF /\ Truthy(text) /\ lineno < Len(text[1])
       /\ get_word_at_position(text[1][lineno + 1], character) # None
    THEN AllMatches(text[1], get_word_at_position(text[1][lineno + 1], character)[1], 0)
    ELSE <<>>

\* current_line[:character + 1] for current_line[:character]
prefix_through(current_line, character) ==
    LET w == Words(SubSeq(current_line, 1,
                          IF character + 1 < Len(current_line) THEN character + 1
                          ELSE Len(current_line)))
    IN IF w = <<>> THEN <<>> ELSE Upper(w[Len(w)])

\* _handle_completion, `prefix`: the last word of current_line[:character], uppercased
prefix_of(current_line, character) ==
    LET w == Words(SubSeq(current_line, 1,
                          IF character < Len(current_line) THEN character
                          ELSE Len(current_line)))
    IN IF w = <<>> THEN <<>> ELSE Upper(w[Len(w)])

\* `not prefix or name.startswith(prefix)`
Offered(name, prefix) == prefix = <<>> \/ StartsWith(name, prefix)

\* the items of one group: label and kind
Items(names, kind, prefix) ==
    { [label |-> n, kind |-> kind] : n \in { x \in names : Offered(x, prefix) } }

\* '.' not in name
Undotted(names) == { n \in names : \A i \in DOMAIN n : n[i] # "." }

\* _handle_completion: isIncomplete and the items (label and kind of each)
handle_completion(parser, mdl, text, lineno, character) ==
    [ isIncomplete |-> FALSE,
      items |->
        IF parser # None /\ mdl # None /\ lineno < Len(LinesOf(text))
        THEN Items(RESERVED_WORDS, 14, prefix_of(LinesOf(text)[lineno + 1], character))
             \cup Items(PREDEFINED_FUNCTIONS, 3, prefix_of(LinesOf(text)[lineno + 1], character))
             \cup Items(Undotted(DOMAIN mdl[1].m.variables), 6,
                        prefix_of(LinesOf(text)[lineno + 1], character))
             \cup Items(DOMAIN mdl[1].m.tables, 22, prefix_of(LinesOf(text)[lineno + 1], character))
             \cup Items(DOMAIN mdl[1].m.procedures, 2,
                        prefix_of(LinesOf(text)[lineno + 1], character))
             \cup Items(DOMAIN mdl[1].m.functions, 3,
                        prefix_of(LinesOf(text)[lineno + 1], character))
             \cup Items(DOMAIN mdl[1].m.types, 25, prefix_of(LinesOf(text)[lineno + 1], character))
        ELSE {} ]

\* `block.line_end or block.line_start`
EndOf(o) == IF o.line_end # 0 THEN o.line_end ELSE o.line_start

\* the symbols of one registry of blocks, tables, procedures, functions or types
Symbols(M, registry, kind) ==
    { [name |-> n, kind |-> kind, start |-> M.h[registry[n]].line_start,
       end |-> EndOf(M.h[registry[n]])] : n \in DOMAIN registry }

\* _handle_document_symbols: name, kind and range lines of each symbol
handle_document_symbols(parser, mdl) ==
    IF parser # None /\ mdl # None
    THEN Symbols(mdl[1], mdl[1].m.sys_data_blocks, 2)
         \cup Symbols(mdl[1], mdl[1].m.sys_proc_blocks, 2)
         \cup { [name |-> n, kind |-> 13, start |-> mdl[1].m.variables[n].line_number,
                 end |-> mdl[1].m.variables[n].line_number] :
                n \in Undotted(DOMAIN mdl[1].m.variables) }
         \cup Symbols(mdl[1], mdl[1].m.tables, 23)
         \cup Symbols(mdl[1], mdl[1].m.procedures, 6)
         \cup Symbols(mdl[1], mdl[1].m.functions, 12)
         \cup Symbols(mdl[1], mdl[1].m.types, 26)
    ELSE {}

\* the request dispatch on a document request: the handler's result
Answer(method, parser, mdl, text, lineno, character) ==
    CASE method = "textDocument/completion" ->
            << handle_completion(parser, mdl, text, lineno, character) >>
      [] method = "textDocument/hover" -> handle_hover(parser, mdl, text, lineno, character)
      [] method = "textDocument/definition" -> handle_definition(mdl, text, lineno, character)
      [] method = "textDocument/references" -> << handle_references(text, lineno, character) >>
      [] method = "textDocument/documentSymbol" -> << handle_document_symbols(parser, mdl) >>

\* the positions the client asks about
Positions == { <<0, 12>>, <<1, 5>>, <<1, 6>>, <<2, 19>>, <<3, 13>>, <<3, 0>> }

handle_document_request(method, msg_id, uri, lineno, character) ==
    Response(msg_id, Answer(method, Get(parsers, uri), Get(models, uri), Get(documents, uri),
                            lineno, character))

\* changes[0]: the first entry of contentChanges instead of the last
FirstChange(changes) == changes[1]

\* changes[-1].get('text', '')
LastChange(changes) == changes[Len(changes)]

\* _handle_message has returned a response, _send_message writes it
Sends(method, response, about) ==
    /\ nmsg < MaxMsgs
    /\ stdout' = Append(stdout, response)
    /\ requested' = Append(requested, [id |-> NextId, method |-> method, read |-> TRUE])
    /\ asof' = Append(asof, about)
    /\ nmsg' = nmsg + 1
    /\ UNCHANGED <<documents, models, running, current, pvars>>

\* a handler that assigns to nothing has returned a response
Replies(method, response, about) ==
    /\ Sends(method, response, about)
    /\ UNCHANGED parsers

\* an assignment of the first line only to parser.lines
set_lines_first(uri, lineno) ==
    IF Has(parsers, uri) /\ Has(models, uri) /\ lineno < Len(LinesOf(Get(documents, uri)))
    THEN [parsers EXCEPT ![uri].lines = SubSeq(LinesOf(Get(documents, uri)), 1, 1)]
    ELSE parsers

\* `parser.lines = lines` in _handle_hover, lines being the lines of the
\* stored text: the parsers after it
set_lines(uri, lineno) ==
    IF Has(parsers, uri) /\ Has(models, uri) /\ lineno < Len(LinesOf(Get(documents, uri)))
    THEN [parsers EXCEPT ![uri].lines = LinesOf(Get(documents, uri))]
    ELSE parsers

\* _handle_message has returned None for a message without an id
Notified ==
    /\ nmsg < MaxMsgs
    /\ nmsg' = nmsg + 1
    /\ UNCHANGED <<stdout, requested, asof, pvars>>

\* history: the uri and position of a document request and the uri's current text
About(uri, lineno, character) ==
    << [ uri |-> uri, line |-> lineno, character |-> character, current |-> Get(current, uri) ] >>

\* history: the record of a didClose, and whether the uri had a text then
DidCloseRecord(held) == [ by |-> "didClose", held |-> held ]

\* history: c, the record of a uri in `current`, is of a didOpen or a didChange
IsOpen(c) == c # None /\ c[1].by # "didClose"

Initialize ==
    /\ running
    /\ Replies("initialize", handle_initialize(NextId), None)

Shutdown ==
    /\ running
    /\ Replies("shutdown", handle_shutdown(NextId), None)

UnknownRequest ==
    /\ running
    /\ Replies("$/unknown", unknown_request(NextId), None)

Completion ==
    /\ running
    /\ \E uri \in URIs, pos \in Positions :
         Replies("textDocument/completion",
                 handle_document_request("textDocument/completion", NextId, uri, pos[1], pos[2]),
                 About(uri, pos[1], pos[2]))

Hover ==
    /\ running
    /\ \E uri \in URIs, pos \in Positions :
         /\ Sends("textDocument/hover",
                  handle_document_request("textDocument/hover", NextId, uri, pos[1], pos[2]),
                  About(uri, pos[1], pos[2]))
         /\ parsers' = set_lines(uri, pos[1])

Definition ==
    /\ running
    /\ \E uri \in URIs, pos \in Positions :
         Replies("textDocument/definition",
                 handle_document_request("textDocument/definition", NextId, uri, pos[1], pos[2]),
                 About(uri, pos[1], pos[2]))

References ==
    /\ running
    /\ \E uri \in URIs, pos \in Positions :
         Replies("textDocument/references",
                 handle_document_request("textDocument/references", NextId, uri, pos[1], pos[2]),
                 About(uri, pos[1], pos[2]))

DocumentSymbols ==
    /\ running
    /\ \E uri \in URIs :
         Replies("textDocument/documentSymbol",
                 handle_document_request("textDocument/documentSymbol", NextId, uri, 0, 0),
                 About(uri, 0, 0))

\* `initialized`, and any other notification the dispatch has no branch for
Initialized ==
    /\ running
    /\ Notified
    /\ UNCHANGED <<documents, models, parsers, running, current>>

Exit ==
    /\ running
    /\ Notified
    /\ running' = FALSE
    /\ UNCHANGED <<documents, models, parsers, current>>

\* what _parse_document stores of a finished parse: the model with its objects
Stored(R) == [ m |-> R.m, h |-> R.h ]

\* the parser _parse_document stores: its fields after the parse, and the
\* lines parse() has split the text into
StoredParser(R, text) == [ s |-> R.s, lines |-> text ]

\* a _parse_document that parses again only a uri it has a parser for
parse_document_known(uri, text) ==
    IF Has(parsers, uri)
    THEN /\ parsers' = Put(parsers, uri, StoredParser(parse(text), text))
         /\ models' = Put(models, uri, Stored(parse(text)))
    ELSE UNCHANGED <<models, parsers>>

\* _parse_document: a new parser parses the text; parser and model are stored
parse_document(uri, text) ==
    /\ parsers' = Put(parsers, uri, StoredParser(parse(text), text))
    /\ models' = Put(models, uri, Stored(parse(text)))

DidOpen ==
    /\ running
    /\ Notified
    /\ \E uri \in URIs, text \in Texts :
         /\ documents' = Put(documents, uri, text)
         /\ parse_document(uri, text)
         /\ current' = Put(current, uri, [text |-> text, by |-> "didOpen", entries |-> 1])
    /\ UNCHANGED running

DidChange ==
    /\ running
    /\ Notified
    /\ \E uri \in URIs, changes \in ChangeLists :
         /\ IF changes # <<>>
            THEN /\ documents' = Put(documents, uri, LastChange(changes))
                 /\ parse_document(uri, LastChange(changes))
            ELSE UNCHANGED <<documents, models, parsers>>
         /\ current' = IF changes # <<>>
                       THEN Put(current, uri,
                                [text |-> changes[Len(changes)], by |-> "didChange",
                                 entries |-> Len(changes)])
                       ELSE current
    /\ UNCHANGED running

DidClose ==
    /\ running
    /\ Notified
    /\ \E uri \in URIs :
         /\ documents' = Del(documents, uri)
         /\ models' = Del(models, uri)
         /\ parsers' = Del(parsers, uri)
         /\ current' = Put(current, uri, DidCloseRecord(Has(documents, uri)))
    /\ UNCHANGED running

\* a loop that goes on after exit: the message is read and answered
Unread_answered ==
    /\ ~running
    /\ nmsg < MaxMsgs
    /\ nmsg' = nmsg + 1
    /\ stdout' = Append(stdout, handle_shutdown(NextId))
    /\ requested' = Append(requested, [id |-> NextId, method |-> "shutdown", read |-> TRUE])
    /\ asof' = Append(asof, None)
    /\ UNCHANGED <<documents, models, parsers, running, current, pvars>>

\* the loop has ended: a message put on stdin is never read
Unread ==
    /\ ~running
    /\ nmsg < MaxMsgs
    /\ nmsg' = nmsg + 1
    /\ \E has_id \in BOOLEAN :
         requested' = IF has_id
                      THEN Append(requested, [id |-> NextId, method |-> "shutdown", read |-> FALSE])
                      ELSE requested
    /\ UNCHANGED <<documents, models, parsers, running, stdout, current, asof, pvars>>

ServerNext ==
    \/ Initialize \/ Shutdown \/ UnknownRequest
    \/ Completion \/ Hover \/ Definition \/ References \/ DocumentSymbols
    \/ Initialized \/ Exit \/ DidOpen \/ DidChange \/ DidClose
    \/ Unread

ServerSpec == Init /\ [][ServerNext]_vars

(***************************************************************************)
(* Properties of the parser, checked under Spec.                           *)
(***************************************************************************)
\* the objects of the parse so far, by kind
Of(kind) == { i \in DOMAIN heap : heap[i].kind = kind }

\* the name lists of a PROCEDURE statement as its text gives them: the items
\* after the clause keyword kw, up to the next clause keyword
ClauseKeywords == {Keyword.INPUT, Keyword.OUTPUT, Keyword.EXIT}

RECURSIVE UpToClause(_)
UpToClause(toks) ==
    IF toks = <<>> \/ Upper(toks[1]) \in ClauseKeywords THEN <<>>
    ELSE <<toks[1]>> \o UpToClause(Tail(toks))

ClauseItems(stmt, kw) ==
    LET at == { i \in DOMAIN stmt : Upper(stmt[i]) = kw } IN
    IF at = {} THEN <<>>
    ELSE LET first == CHOOSE i \in at : \A j \in at : i <= j
         IN SplitParams(Join(UpToClause(SubSeq(stmt, first + 1, Len(stmt)))))

\* statement s is a PROCEDURE declaration that the pattern matches
DeclaresProcedure(s) == procedure_match(StripModifier(s, AllModifiers).stmt).match

\* C1: every step that parses a matching PROCEDURE statement leaves, as the
\* newest object, a procedure with is_exec false whose input_params,
\* output_params and exit_params are the uppercased, trimmed, comma-separated
\* items of the statement's INPUT, OUTPUT and EXIT clauses.
C1_ProcedureParamsFromClauses ==
    [][ Procedure =>
          \E s \in Routing["procedure"] :
             /\ heap' = parse_procedure_declaration(Bundle, s, line).h
             /\ model' = parse_procedure_declaration(Bundle, s, line).m
             /\ DeclaresProcedure(s) =>
                  /\ Len(heap') = Len(heap) + 1
                  /\ heap'[Len(heap')].kind = "procedure"
                  /\ heap'[Len(heap')].is_exec = FALSE
                  /\ heap'[Len(heap')].input_params = ClauseItems(s, Keyword.INPUT)
                  /\ heap'[Len(heap')].output_params = ClauseItems(s, Keyword.OUTPUT)
                  /\ heap'[Len(heap')].exit_params = ClauseItems(s, Keyword.EXIT) ]_vars

\* the names a lookup is tried with
LookupNames == { <<"a">>, <<"A">>, <<"b">>, <<"B">> }

\* C2: get_variable gives the same result for a name and for its uppercase form.
C2_LookupIgnoresCase ==
    \A n \in LookupNames : get_variable(model, n) = get_variable(model, Upper(n))

IsUpper(cs) == Upper(cs) = cs

KeysUpper(d) == \A k \in DOMAIN d : IsUpper(k)

NamesUpper(fields) == \A i \in DOMAIN fields : IsUpper(fields[i].name)

\* C5: every identifier the model stores is uppercase: the keys of the
\* registries and of the block indexes, and the names of variables, tables,
\* fields, types, procedures, functions and blocks.
C5_StoredNamesUppercase ==
    /\ \A k \in DOMAIN model.variables : IsUpper(k) /\ IsUpper(model.variables[k].name)
    /\ KeysUpper(model.tables) /\ KeysUpper(model.types)
    /\ KeysUpper(model.procedures) /\ KeysUpper(model.functions)
    /\ KeysUpper(model.sys_data_blocks) /\ KeysUpper(model.sys_proc_blocks)
    /\ \A i \in DOMAIN heap : IsUpper(heap[i].name)
    /\ \A i \in Of("table") : NamesUpper(heap[i].fields)
    /\ \A i \in Of("sys_dd") :
          /\ \A k \in DOMAIN heap[i].variables :
                IsUpper(k) /\ IsUpper(heap[i].variables[k].name)
          /\ KeysUpper(heap[i].tables) /\ KeysUpper(heap[i].types)
    /\ \A i \in Of("sys_proc") :
          KeysUpper(heap[i].procedures) /\ KeysUpper(heap[i].functions)
    /\ \A i \in Of("procedure") \cup Of("function") : KeysUpper(heap[i].local_vars)

\* the objects that a closing statement closes: blocks, tables, procedures,
\* functions and structured types
IsBlockEntity(o) ==
    \/ o.kind \in {"sys_dd", "sys_proc", "table", "procedure", "function"}
    \/ o.kind = "type" /\ o.status_values = <<>>

\* C6: a block entity whose closing statement has not been met has line_end
\* equal to its line_start.
C6_UnclosedEndsAtStart ==
    \A i \in DOMAIN heap \ closed :
       IsBlockEntity(heap[i]) => heap[i].line_end = heap[i].line_start

\* the line indexes of the document
LineRange == 0 .. (MaxLines - 1)

VarLinesIn(d) == \A k \in DOMAIN d : d[k].line_number \in LineRange

\* C7: every recorded line value is a line index of the document, and an
\* entity that a closing statement has closed has line_start <= line_end.
C7_LinesWithinDocument ==
    /\ VarLinesIn(model.variables)
    /\ \A i \in DOMAIN heap :
          /\ heap[i].line_start \in LineRange
          /\ heap[i].line_end \in LineRange
          /\ i \in closed => heap[i].line_start <= heap[i].line_end
    /\ \A i \in Of("table") :
          \A f \in DOMAIN heap[i].fields : heap[i].fields[f].line_number \in LineRange
    /\ \A i \in Of("sys_dd") : VarLinesIn(heap[i].variables)
    /\ \A i \in Of("procedure") \cup Of("function") : VarLinesIn(heap[i].local_vars)

\* a redeclared entity that was closed on a later line than it was opened on
C7_ClosedOnLaterLine ==
    \E i \in DOMAIN heap, j \in closed :
       /\ i < j /\ heap[i].kind = heap[j].kind /\ heap[i].name = heap[j].name
       /\ heap[j].line_end > heap[j].line_start

\* the SYS-DD and the SYS-PROC that are open
OpenSysDd ==
    IF self.current_sys_dd # None /\ Has(model.sys_data_blocks, self.current_sys_dd)
    THEN <<model.sys_data_blocks[self.current_sys_dd]>> ELSE None

OpenSysProc ==
    IF self.current_sys_proc # None /\ Has(model.sys_proc_blocks, self.current_sys_proc)
    THEN <<model.sys_proc_blocks[self.current_sys_proc]>> ELSE None

\* C8: an entity declared while a SYS-DD is open is in that block's
\* variables, tables or types, and an entity declared while a SYS-PROC is
\* open is in that block's procedures or functions, under its name.
C8_DeclaredInOpenBlock ==
    [][ /\ OpenSysDd # None =>
            \A k \in DOMAIN model'.variables :
               (~Has(model.variables, k) \/ model.variables[k] # model'.variables[k])
                  => Has(heap'[OpenSysDd[1]].variables, model'.variables[k].name)
        /\ Len(heap') = Len(heap) + 1 =>
            /\ (OpenSysDd # None /\ heap'[Len(heap')].kind = "table")
                  => Get(heap'[OpenSysDd[1]].tables, heap'[Len(heap')].name) = <<Len(heap')>>
            /\ (OpenSysDd # None /\ heap'[Len(heap')].kind = "type")
                  => Get(heap'[OpenSysDd[1]].types, heap'[Len(heap')].name) = <<Len(heap')>>
            /\ (OpenSysProc # None /\ heap'[Len(heap')].kind = "procedure")
                  => Get(heap'[OpenSysProc[1]].procedures, heap'[Len(heap')].name) = <<Len(heap')>>
            /\ (OpenSysProc # None /\ heap'[Len(heap')].kind = "function")
                  => Get(heap'[OpenSysProc[1]].functions, heap'[Len(heap')].name) = <<Len(heap')>>
      ]_vars

\* C9: the keys of a SYS-DD block's variables, tables and types are keys of the
\* model's variables, tables and types, and the keys of a SYS-PROC block's
\* procedures and functions are keys of the model's procedures and functions.
C9_BlockIndexWithinRegistry ==
    /\ \A i \in Of("sys_dd") :
          /\ DOMAIN heap[i].variables \subseteq DOMAIN model.variables
          /\ DOMAIN heap[i].tables \subseteq DOMAIN model.tables
          /\ DOMAIN heap[i].types \subseteq DOMAIN model.types
    /\ \A i \in Of("sys_proc") :
          /\ DOMAIN heap[i].procedures \subseteq DOMAIN model.procedures
          /\ DOMAIN heap[i].functions \subseteq DOMAIN model.functions

\* a SYS-DD block that indexes a variable and a table
C9_BlockWithEntries ==
    \E i \in Of("sys_dd") :
       /\ DOMAIN heap[i].variables # {} /\ DOMAIN heap[i].tables # {}
       /\ i = model.sys_data_blocks[heap[i].name]

\* C10: every field of a table has the table's name as its parent_table.
C10_FieldParentIsTable ==
    \A i \in Of("table") :
       \A f \in DOMAIN heap[i].fields : heap[i].fields[f].parent_table = heap[i].name

\* a table that was declared twice, the second declaration holding a field
C10_FieldOfRedeclaredTable ==
    \E i \in Of("table"), j \in Of("table") :
       /\ i < j /\ heap[i].name = heap[j].name
       /\ heap[j].fields # <<>>
       /\ heap[i].fields = <<>>

(***************************************************************************)
(* Properties of the server, checked under ServerSpec.                     *)
(***************************************************************************)
\* C3: the stored text and model of every open URI are its current text (of
\* the latest didOpen, or of the last entry of the latest non-empty didChange)
\* and the parse of that text, a URI that is not open has neither, and every
\* document request was answered from the current text of its URI and from
\* the model of that text.
C3_RequestsSeeCurrentText ==
    /\ \A u \in URIs :
          IF IsOpen(Get(current, u))
          THEN /\ Get(documents, u) = <<current[u].text>>
               /\ Get(models, u) = <<Stored(parse(current[u].text))>>
          ELSE /\ Get(documents, u) = None
               /\ Get(models, u) = None
    /\ \A i \in DOMAIN stdout :
          asof[i] # None =>
             stdout[i].result =
                IF ~IsOpen(asof[i][1].current)
                THEN Answer(requested[i].method, None, None, None,
                            asof[i][1].line, asof[i][1].character)
                ELSE Answer(requested[i].method,
                            <<parse(asof[i][1].current[1].text).s>>,
                            <<Stored(parse(asof[i][1].current[1].text))>>,
                            <<asof[i][1].current[1].text>>,
                            asof[i][1].line, asof[i][1].character)

\* a document request answered after a didChange with two entries set the text
C3_AnsweredAfterChange ==
    \E i \in DOMAIN stdout :
       /\ asof[i] # None
       /\ asof[i][1].current # None
       /\ asof[i][1].current[1].by = "didChange"
       /\ asof[i][1].current[1].entries = 2
       /\ requested[i].method = "textDocument/documentSymbol"
       /\ stdout[i].result[1] # {}

\* the ids of a sequence of messages, in order
IdsOf(msgs) == [i \in DOMAIN msgs |-> msgs[i].id]

WasRead(m) == m.read

\* C4 as stated: the responses written are, in order, the responses to all
\* the id-carrying messages put on the input.
C4_EveryIdAnswered == IdsOf(stdout) = IdsOf(requested)

\* C4: the responses written are, in order, one response with the same id for
\* each id-carrying message that was read before an exit notification ended
\* the loop; an unknown method is answered with result null; a message
\* without an id adds no response.
C4_EveryIdReadAnswered ==
    /\ IdsOf(stdout) = IdsOf(SelectSeq(requested, WasRead))
    /\ \A i \in DOMAIN stdout :
          requested[i].method = "$/unknown" => stdout[i].result = None

\* after exit, a request is left unread behind answered ones
C4_UnreadAfterExit ==
    /\ ~running
    /\ stdout # <<>>
    /\ \E i \in DOMAIN requested : ~requested[i].read
    /\ \E i \in DOMAIN stdout : requested[i].method = "$/unknown"

\* C11: after every parsed statement, whatever the sequence of SYS-DD and
\* SYS-PROC opens and closes, current_scope is "GLOBAL" whenever neither a
\* SYS-DD nor a SYS-PROC block is open.
C11_GlobalScopeOutsideBlocks ==
    (~self.in_sys_dd /\ ~self.in_sys_proc) => model.current_scope = Keyword.GLOBAL

\* a block has been opened and closed again, and no block is open
C11_BlockOpenedAndClosed ==
    /\ ~self.in_sys_dd /\ ~self.in_sys_proc
    /\ \E i \in closed : heap[i].kind \in {"sys_dd", "sys_proc"}

\* the entities of one kind created so far under one name, by creation order
Created(kind, name) == { i \in DOMAIN heap : heap[i].kind = kind /\ heap[i].name = name }

\* registry[name] is the entity the last declaration of `name` has created
LastWins(registry, kind) ==
    /\ \A i \in DOMAIN heap : heap[i].kind = kind => Has(registry, heap[i].name)
    /\ \A name \in DOMAIN registry : /\ Created(kind, name) # {}
                                      /\ registry[name] = Max(Created(kind, name))

\* C14: re-declaring a name overwrites: each top-level registry (variables,
\* tables, types, procedures, functions) maps a name to the entity created by
\* the last declaration of that name in document order.
C14_LastDeclarationWins ==
    /\ model.variables = declared
    /\ LastWins(model.tables, "table")
    /\ LastWins(model.types, "type")
    /\ LastWins(model.procedures, "procedure")
    /\ LastWins(model.functions, "function")

\* a procedure name has been declared twice, and a variable has been declared
C14_NameDeclaredTwice ==
    /\ \E i, j \in DOMAIN heap : /\ i < j
                                 /\ heap[i].kind = "procedure" /\ heap[j].kind = "procedure"
                                 /\ heap[i].name = heap[j].name
                                 /\ heap[i] # heap[j]
    /\ declared # <<>>

\* position of the first '' of ln at or after position i, 0 when there is none
Delimiter(ln, i) ==
    LET at == { j \in i..(Len(ln) - 1) : ln[j] = "'" /\ ln[j + 1] = "'" } IN
    IF at = {} THEN 0 ELSE CHOOSE j \in at : \A k \in at : j <= k

\* ln with every comment deleted, a comment being the text from a '' up to
\* and including the next '' on the line
RECURSIVE Uncommented(_)
Uncommented(ln) ==
    IF Delimiter(ln, 1) = 0 \/ Delimiter(ln, Delimiter(ln, 1) + 2) = 0 THEN ln
    ELSE SubSeq(ln, 1, Delimiter(ln, 1) - 1)
            \o Uncommented(SubSeq(ln, Delimiter(ln, Delimiter(ln, 1) + 2) + 2, Len(ln)))

\* the parser has handed over the statements, and built the model, of R
SameParse(R) == R.t = handed /\ R.m = model /\ R.h = heap

\* C12: a `$` between a pair of '' on a line terminates no statement:
\* the statements handed over and the model built from the lines read are
\* those of the same lines with their comments deleted.
C12_CommentsDoNotCount ==
    SameParse(ParseLines(FreshParser, [k \in 1..line |-> Uncommented(lines[k])], 0))

\* the line `VRBL X I 16 S '' cost $ now '' $` has been read: one statement,
\* one variable X
C12_DollarInsideComment ==
    /\ line = 1
    /\ lines[1] = <<"V","R","B","L"," ","X"," ","I"," ","1","6"," ","S"," ","'","'"," ","c","o","s","t"," ","$"," ","n","o","w"," ","'","'"," ","$">>
    /\ handed = << [statement |-> <<"V","R","B","L"," ","X"," ","I"," ","1","6"," ","S">>, line_num |-> 0] >>
    /\ DOMAIN model.variables = { <<"X">> }

\* the characters parse() appends to statement_buffer while reading the first
\* n lines, each with the index of its line
RECURSIVE Stream(_, _)
Stream(text, n) ==
    IF n = 0 THEN <<>>
    ELSE Stream(text, n - 1)
            \o [j \in 1..(IF Strip(remove_comments(text[n], 1, FALSE)) = <<>> THEN 0
                          ELSE Len(Strip(remove_comments(text[n], 1, FALSE))) + 1) |->
                  [ch |-> IF j = 1 THEN " " ELSE Strip(remove_comments(text[n], 1, FALSE))[j - 1],
                   at |-> n - 1]]

\* the non-blank texts between consecutive `$` of the stream st, each with
\* the line of the `$` that ends it
Expected(st) ==
    LET IsDollar(p) == st[p].ch = "$"
        ends == SelectSeq([p \in 1..Len(st) |-> p], IsDollar)
        Before(p) == Max({0} \cup { r \in 1..(p - 1) : st[r].ch = "$" })
        Between(p) == Strip([j \in 1..(p - 1 - Before(p)) |-> st[Before(p) + j].ch])
        NonBlank(h) == h.statement # <<>>
    IN SelectSeq([k \in 1..Len(ends) |->
                    [statement |-> Between(ends[k]), line_num |-> st[ends[k]].at]], NonBlank)

\* C13: the statements handed to the classifier are, in document order, the
\* non-blank texts between consecutive `$` of the comment-stripped lines, each
\* with the zero-based line of the `$` that ends it.
C13_StatementAssembly == handed = Expected(Stream(lines, line))

\* a statement begun on line 0 and ended on line 1, and a second statement
\* on line 1: both handed over with line 1
C13_TwoLinesThenTwoOnOne ==
    /\ line = 2
    /\ lines[1] = <<"V","R","B","L"," ","A">>
    /\ lines[2] = <<"I"," ","8"," ","U"," ","$"," ","V","R","B","L"," ","B"," ","F"," ","$">>
    /\ handed = << [statement |-> <<"V","R","B","L"," ","A"," ","I"," ","8"," ","U">>, line_num |-> 1],
                   [statement |-> <<"V","R","B","L"," ","B"," ","F">>, line_num |-> 1] >>

\* the document a request was about, when its uri was open, and the line of it
\* that the request named, when the document has such a line
AskedText(i) ==
    IF asof[i] # None /\ IsOpen(asof[i][1].current) THEN <<asof[i][1].current[1].text>>
    ELSE None

AskedLine(i) ==
    IF AskedText(i) # None /\ asof[i][1].line < Len(AskedText(i)[1])
    THEN <<AskedText(i)[1][asof[i][1].line + 1]>>
    ELSE None

\* a response that resolves no identifier: null to hover and definition, an
\* empty list to references
NoIdentifier(i) ==
    /\ requested[i].method \in {"textDocument/hover", "textDocument/definition"}
          => stdout[i].result = None
    /\ requested[i].method = "textDocument/references" => stdout[i].result = << <<>> >>

IdentifierRequests == {"textDocument/hover", "textDocument/definition", "textDocument/references"}

\* the identifier that ends a line: its longest suffix of identifier
\* characters, uppercased, when that suffix starts with a letter
EndingIdentifier(ln) ==
    LET from == CHOOSE s \in 1..(Len(ln) + 1) :
                   /\ \A k \in s..Len(ln) : IsWordChar(ln[k])
                   /\ s > 1 => ~IsWordChar(ln[s - 1])
    IN IF from <= Len(ln) /\ ln[from] \in Letters THEN <<Upper(SubSeq(ln, from, Len(ln)))>>
       ELSE None

IntegerVariable ==
    << <<"D","D","X"," ","S","Y","S","-","D","D"," ","$">>,
       <<"V","R","B","L"," ","A","L","T"," ","I"," ","1","6"," ","S"," ","$">>,
       <<"E","N","D","-","S","Y","S","-","D","D"," ","D","D","X"," ","$">>,
       <<>> >>

\* the completion responses about line 1 of that document, at a character
CompletionsAt(character) ==
    { i \in DOMAIN stdout : /\ requested[i].method = "textDocument/completion"
                            /\ AskedText(i) = <<IntegerVariable>>
                            /\ asof[i][1].line = 1
                            /\ asof[i][1].character = character }

ALT == <<"A","L","T">>

\* C16 as stated: for that document a completion request at line 1,
\* character 5 returns an item list that contains the variable ALT with kind 6.
C16_AltOfferedAtCharacter5 ==
    \A i \in CompletionsAt(5) : [label |-> ALT, kind |-> 6] \in stdout[i].result[1].items

\* C16: for that document a completion request at line 1, character 6 (the
\* prefix is `A`) returns an item list that contains the variable ALT with
\* kind 6; at character 5 the prefix is `VRBL` and the list holds the keyword
\* VRBL alone.
C16_AltOfferedAtCharacter6 ==
    /\ \A i \in CompletionsAt(6) : [label |-> ALT, kind |-> 6] \in stdout[i].result[1].items
    /\ \A i \in CompletionsAt(5) :
          stdout[i].result[1].items = { [label |-> <<"V","R","B","L">>, kind |-> 14] }

\* both completion requests were answered
C16_CompletionAtBothCharacters ==
    /\ \E i \in CompletionsAt(6) : [label |-> ALT, kind |-> 6] \in stdout[i].result[1].items
    /\ CompletionsAt(5) # {}

\* the candidates of a completion on a model: every keyword, predefined
\* function and declared variable, table, procedure, function and type, with
\* the kind of its group
Candidates(M) ==
    { [label |-> n, kind |-> 14] : n \in RESERVED_WORDS }
    \cup { [label |-> n, kind |-> 3] : n \in PREDEFINED_FUNCTIONS }
    \cup { [label |-> n, kind |-> 6] : n \in DOMAIN M.variables }
    \cup { [label |-> n, kind |-> 22] : n \in DOMAIN M.tables }
    \cup { [label |-> n, kind |-> 2] : n \in DOMAIN M.procedures }
    \cup { [label |-> n, kind |-> 3] : n \in DOMAIN M.functions }
    \cup { [label |-> n, kind |-> 25] : n \in DOMAIN M.types }

ScopeQualified(c) == c.kind = 6 /\ \E k \in DOMAIN c.label : c.label[k] = "."

\* C17: for an open document and an in-range line, the completion result
\* contains a candidate if and only if the prefix is empty or the candidate's
\* name starts with the prefix compared case-insensitively; scope-qualified
\* variable keys are never included, and isIncomplete is false.
C17_CompletionFiltersByPrefix ==
    \A i \in DOMAIN stdout :
       (requested[i].method = "textDocument/completion" /\ AskedLine(i) # None) =>
          LET M == Stored(parse(AskedText(i)[1])).m
              prefix == prefix_of(AskedLine(i)[1], asof[i][1].character)
              result == stdout[i].result[1]
          IN /\ result.isIncomplete = FALSE
             /\ result.items \subseteq Candidates(M)
             /\ \A c \in Candidates(M) :
                   c \in result.items <=>
                      /\ ~ScopeQualified(c)
                      /\ prefix = <<>> \/ StartsWith(Upper(c.label), prefix)

\* the hover answer at the position of response i, on the document it was about
HoverAt(i) ==
    LET R == parse(AskedText(i)[1])
    IN handle_hover(<<R.s>>, <<Stored(R)>>, AskedText(i), asof[i][1].line, asof[i][1].character)

\* C18: for every open document and position at which definition returns the
\* declaration line of an entity, hover returns a non-null payload describing
\* that same entity (a variable, table, procedure, function or type declared
\* on that line), underscores in the identifier included.
C18_HoverDescribesDefinedEntity ==
    \A i \in DOMAIN stdout :
       (/\ requested[i].method = "textDocument/definition"
        /\ AskedLine(i) # None
        /\ stdout[i].result # None)
       => /\ HoverAt(i) # None
          /\ HoverAt(i)[1].type \in {"variable", "table", "procedure", "function", "type"}
          /\ HoverAt(i)[1].name = get_word_at_position(AskedLine(i)[1], asof[i][1].character)[1]
          /\ HoverAt(i)[1].line = stdout[i].result[1].line

\* the five registries of a model in the order of the lookup, each as the
\* function from the names it contains to their declaration lines; a variable
\* is looked up through get_variable, under its scope-qualified key when the
\* registry has one for the scope the parse ended in
Registries(M) ==
    << [n \in DOMAIN M.m.variables |->
           { M.m.variables[n].line_number, get_variable(M.m, n)[1].line_number }],
       [n \in DOMAIN M.m.tables |-> { M.h[M.m.tables[n]].line_start }],
       [n \in DOMAIN M.m.procedures |-> { M.h[M.m.procedures[n]].line_start }],
       [n \in DOMAIN M.m.functions |-> { M.h[M.m.functions[n]].line_start }],
       [n \in DOMAIN M.m.types |-> { M.h[M.m.types[n]].line_start }] >>

\* the registries that contain the identifier w, by their place in the order
Containing(M, w) == { k \in 1..5 : w \in DOMAIN Registries(M)[k] }

\* C19: a definition request returns the declaration line of the first
\* registry, in the order variables, tables, procedures, functions, types,
\* that contains the identifier at the position (including when that line is
\* 0), and returns null if and only if the position holds no identifier or
\* the identifier is in none of the five registries.
C19_DefinitionOfFirstRegistry ==
    \A i \in DOMAIN stdout :
       (requested[i].method = "textDocument/definition" /\ asof[i] # None) =>
          IF AskedLine(i) = None THEN stdout[i].result = None
          ELSE LET M == Stored(parse(AskedText(i)[1]))
                   word == get_word_at_position(AskedLine(i)[1], asof[i][1].character)
                   hits == IF word = None THEN {} ELSE Containing(M, word[1])
               IN /\ stdout[i].result = None <=> hits = {}
                  /\ stdout[i].result # None =>
                        stdout[i].result[1].line
                           \in Registries(M)[CHOOSE k \in hits : \A j \in hits : k <= j][word[1]]

\* a definition request on a name declared on line 0 was answered with line
\* 0, and one on a name that is both a variable and a table was answered
C19_DefinitionOnLineZero ==
    /\ \E i \in DOMAIN stdout :
          /\ requested[i].method = "textDocument/definition"
          /\ stdout[i].result = << [line |-> 0] >>
    /\ \E i \in DOMAIN stdout :
          /\ requested[i].method = "textDocument/definition"
          /\ AskedLine(i) # None
          /\ get_word_at_position(AskedLine(i)[1], asof[i][1].character) # None
          /\ {1, 2} \subseteq Containing(Stored(parse(AskedText(i)[1])),
                                         get_word_at_position(AskedLine(i)[1],
                                                              asof[i][1].character)[1])
          /\ stdout[i].result # None

\* the responses to requests on a uri whose latest notification was a didClose
\* answer nothing: null to hover and definition, no items to completion, an
\* empty list to references and documentSymbol
ClosedAnswersNothing ==
    \A i \in DOMAIN stdout :
       (asof[i] # None /\ asof[i][1].current # None /\ ~IsOpen(asof[i][1].current)) =>
          CASE requested[i].method \in {"textDocument/hover", "textDocument/definition"} ->
                  stdout[i].result = None
            [] requested[i].method = "textDocument/completion" ->
                  stdout[i].result = << [isIncomplete |-> FALSE, items |-> {}] >>
            [] requested[i].method = "textDocument/references" -> stdout[i].result = << <<>> >>
            [] requested[i].method = "textDocument/documentSymbol" -> stdout[i].result = << {} >>

\* C20: a step that handles a didClose for a uri u leaves u without text,
\* parser and model and leaves the text, parser and model of every other uri
\* as they were; and every request on u answered while the didClose is the
\* latest notification for u got null from hover and definition, no items
\* from completion and empty lists from references and documentSymbol.
C20_ClosedUriHoldsNothing ==
    [][ /\ \A u \in URIs :
             current' = Put(current, u, DidCloseRecord(Has(documents, u))) =>
                /\ ~Has(documents', u) /\ ~Has(parsers', u) /\ ~Has(models', u)
                /\ \A v \in URIs \ {u} : /\ Get(documents', v) = Get(documents, v)
                                         /\ Get(parsers', v) = Get(parsers, v)
                                         /\ Get(models', v) = Get(models, v)
        /\ ClosedAnswersNothing' ]_vars

\* a request on a uri that had been open was answered after its didClose
C20_AskedAfterClose ==
    \E i \in DOMAIN stdout :
       /\ asof[i] # None
       /\ asof[i][1].current = << DidCloseRecord(TRUE) >>
       /\ requested[i].method = "textDocument/documentSymbol"
       /\ stdout[i].result = << {} >>

\* C21: once an exit notification has been handled (running is false from
\* then on) the loop has stopped: every later step leaves the responses, the
\* three per-uri maps and running as they are, and a message that arrives is
\* left unread.
C21_NothingHandledAfterExit ==
    [][ ~running =>
          /\ ~running'
          /\ stdout' = stdout
          /\ documents' = documents /\ models' = models /\ parsers' = parsers
          /\ \A i \in DOMAIN requested' : i > Len(requested) => ~requested'[i].read ]_vars

\* an exit was handled while a document was open, and a request arrived after it
C21_RequestAfterExit ==
    /\ ~running
    /\ documents # <<>>
    /\ stdout = <<>>
    /\ \E i \in DOMAIN requested : ~requested[i].read

(***************************************************************************)
(* Properties of a parser instance that parses again, checked under        *)
(* ReparseSpec.                                                            *)
(***************************************************************************)
\* C22: whatever text the parser instance parsed before, a parse starts with
\* a new model and all block-tracking state reset, and after each line, and so
\* at its end, the model, the block-tracking state and the unfinished
\* statement are those of a single parse of the same text on a fresh parser.
C22_ParseLeavesNoResidue ==
    /\ line = 0 => model = NewModel /\ self = ResetState /\ statement_buffer = <<>>
    /\ model = parse(SubSeq(lines, 1, line)).m
    /\ heap = parse(SubSeq(lines, 1, line)).h
    /\ self = parse(SubSeq(lines, 1, line)).s
    /\ statement_buffer = parse(SubSeq(lines, 1, line)).b

\* a text that leaves a table open and a statement unfinished has been parsed
\* twice in a row on one parser instance
C22_SameTextTwice ==
    /\ before = <<lines>>
    /\ line = Len(lines)
    /\ self.in_table_block
    /\ statement_buffer # <<>>
    /\ model.tables # <<>>

\* the statements of ResidueTexts that the classifier routes to a declaration
\* or block-open handler and that fail the pattern of that handler
RejectedForms ==
    { <<<<"(","L","O","C">>, <<"D","D","X">>, Keyword.SYS_DD>>,
      <<<<"(","L","O","C">>, <<"P">>, Keyword.SYS_PROC>>,
      <<<<"(","L","O","C">>, Keyword.TABLE, <<"T">>, <<"V">>>>,
      <<Keyword.EXEC_PROC>>,
      <<Keyword.EXEC_PROC, <<"9">>>>,
      <<Keyword.EXEC_PROC, <<"D","D","X">>, Keyword.SYS_DD>>,
      <<Keyword.EXEC_PROC, <<"P">>, Keyword.SYS_PROC>>,
      <<Keyword.EXEC_PROC, Keyword.TABLE, <<"T">>, <<"V">>>>,
      <<Keyword.FIELD>>,
      <<Keyword.FIELD, Keyword.CMODE, <<"O">>>>,
      <<Keyword.FIELD, <<"D","D","X">>, Keyword.SYS_DD>>,
      <<Keyword.FIELD, <<"P">>, Keyword.SYS_PROC>>,
      <<Keyword.FIELD, Keyword.TABLE, <<"T">>, <<"V">>>>,
      <<Keyword.FIELD, Keyword.TYPE, <<"R">>>>,
      <<Keyword.FUNCTION, <<"G">>>>,
      <<Keyword.PROCEDURE, <<"9">>>>,
      <<Keyword.SYS_DD>>,
      <<Keyword.TABLE, <<"9">>>>,
      <<Keyword.TYPE, <<"9">>>>,
      <<Keyword.VRBL, <<"A">>>> }

Rejected(h) == Words(h.statement) \in RejectedForms

Accepted(h) == ~Rejected(h)

\* _parse_statement on the statements hs one after the other, starting from P
RECURSIVE Replay(_, _)
Replay(P, hs) ==
    IF hs = <<>> THEN P
    ELSE Replay(parse_statement(P, Words(hs[1].statement), hs[1].line_num), Tail(hs))

\* C28: a statement routed to a declaration or block-open handler whose
\* pattern it fails is skipped: the model and the open-block tracking are those
\* built from the other statements alone, so they are as before the statement
\* and every later statement is still parsed
C28_RejectedStatementSkipped ==
    LET R == Replay(FreshParser, SelectSeq(handed, Accepted)) IN
    /\ model = R.m
    /\ heap = R.h
    /\ self = R.s

\* a table is opened, three statements fail their patterns while it is open,
\* and the FIELD after them is added to the table
C28_FieldAfterRejected ==
    /\ Len(handed) = 5
    /\ Accepted(handed[1]) /\ Accepted(handed[5])
    /\ \A i \in 2..4 : Rejected(handed[i])
    /\ \E i \in Of("table") : self.in_table_block /\ Len(heap[i].fields) = 1

(***************************************************************************)
(* Further properties of the parser, checked under Spec.                   *)
(***************************************************************************)
\* one declaration of each form, without a modifier
DeclarationForms ==
    { <<Keyword.VRBL, <<"A">>, <<"I">>, <<"1","6">>, <<"S">> >>,
      <<Keyword.TABLE, <<"A">>, <<"V">>, <<"M","E","D","I","U","M">>, <<"1","0","0">> >>,
      <<Keyword.TYPE, <<"B">>, <<"D","E","N","S","E">> >>,
      <<Keyword.PROCEDURE, <<"b">>, Keyword.EXIT, <<"E">> >>,
      <<Keyword.EXEC_PROC, <<"A">>, Keyword.INPUT, <<"a",",">>, <<"B">>>>,
      <<Keyword.FUNCTION, <<"A","(","a",",">>, <<"B",")">>, <<"I">> >> }

\* variables, and an entity of the heap with the variables it indexes, with
\* the modifier fields blanked
BlankVariables(vs) == [k \in DOMAIN vs |-> [vs[k] EXCEPT !.modifier = None]]

BlankEntity(e) ==
    LET e1 == IF "modifier" \in DOMAIN e THEN [e EXCEPT !.modifier = None] ELSE e
        e2 == IF "variables" \in DOMAIN e1 THEN [e1 EXCEPT !.variables = BlankVariables(@)] ELSE e1
    IN IF "local_vars" \in DOMAIN e2 THEN [e2 EXCEPT !.local_vars = BlankVariables(@)] ELSE e2

\* a parser with the modifier fields of its entities blanked
Unmodified(P) ==
    [P EXCEPT !.m.variables = BlankVariables(@),
              !.h = [i \in DOMAIN @ |-> BlankEntity(@[i])]]

\* R is the parser P after a declaration that registered an entity, and every
\* entity it registered that carries a modifier field has the modifier mod
Registered(P, R, mod) ==
    /\ R.m # P.m
    /\ \A k \in DOMAIN R.m.variables :
          (k \notin DOMAIN P.m.variables \/ R.m.variables[k] # P.m.variables[k])
             => R.m.variables[k].modifier = mod
    /\ \A i \in (Len(P.h) + 1)..Len(R.h) :
          "modifier" \in DOMAIN R.h[i] => R.h[i].modifier = mod

\* C23: for each declaration form and each modifier, the statement
\* `(MOD) <declaration>` registers the same entity as `<declaration>` alone,
\* with modifier = MOD recorded on the entities that carry a modifier field.
C23_ModifierOnEveryForm ==
    \A stmt \in DeclarationForms, mod \in { AllModifiers[i] : i \in DOMAIN AllModifiers } :
       LET plain == parse_statement(Bundle, stmt, line)
           with  == parse_statement(Bundle, <<mod>> \o stmt, line)
       IN /\ Unmodified(with) = Unmodified(plain)
          /\ Registered(Bundle, with, SubSeq(mod, 2, Len(mod) - 1))

\* type specifications, as the words after the name of a VRBL statement: one or
\* two for each row of the grammar table, and four that match no row
TypeSpecs ==
    { << <<"I">>, <<"1","6">>, <<"S">> >>,
      << <<"I">>, <<"8">>, <<"U">> >>,
      << <<"A">>, <<"3","2">>, <<"S">>, <<"1","6">> >>,
      << <<"F">> >>,
      << <<"F","(","D",")">> >>,
      << <<"B">> >>,
      << <<"H">>, <<"8">> >>,
      << <<"C">>, <<"4">> >>,
      << <<"'","O","F","F","'",",">>, <<"'","O","N","'">> >>,
      << <<"I">>, <<"1","6">> >>,
      << <<"W","O","R","D">> >>,
      << <<"C","R","S">> >>,
      << <<"F","L","A","G","S">> >> }

\* the row of the grammar table a type specification matches, read off the
\* table: the mode and the fields extracted
GrammarRow(T) ==
    LET unset == [ var_type |-> "UNKNOWN", bits |-> None, frac_bits |-> None,
                   char_length |-> None, status_values |-> <<>> ]
        quoted == { i \in DOMAIN T : T[i][1] = "'" }
    IN IF quoted # {}
       THEN [unset EXCEPT !.var_type = "STATUS",
                          !.status_values = StatusFindAll(Join(T), 1)]
       ELSE IF Len(T) = 3 /\ T[1] = <<"I">> /\ IsDigits(T[2]) /\ T[3] \in {<<"S">>, <<"U">>}
       THEN [unset EXCEPT !.var_type = "INTEGER", !.bits = <<ToInt(T[2])>>]
       ELSE IF Len(T) = 4 /\ T[1] = <<"A">> /\ IsDigits(T[2]) /\ T[3] \in {<<"S">>, <<"U">>} /\ IsDigits(T[4])
       THEN [unset EXCEPT !.var_type = "FIXED", !.bits = <<ToInt(T[2])>>,
                          !.frac_bits = <<ToInt(T[4])>>]
       ELSE IF Len(T) = 1 /\ T[1] \in { <<"F">> } \cup { <<"F","(",p,")">> : p \in {"T","R","S","D"} }
       THEN [unset EXCEPT !.var_type = "FLOAT"]
       ELSE IF T = << <<"B">> >>
       THEN [unset EXCEPT !.var_type = "BOOLEAN"]
       ELSE IF Len(T) = 2 /\ T[1] \in {<<"H">>, <<"C">>} /\ IsDigits(T[2])
       THEN [unset EXCEPT !.var_type = "CHAR", !.char_length = <<ToInt(T[2])>>]
       ELSE unset

\* the variable V of the model after VRBL V <type spec> is parsed in the
\* current state
DeclaredAs(T) == parse_statement(Bundle, <<Keyword.VRBL, <<"V">>>> \o T, line).m.variables[<<"V">>]

ModeAsInTable(T) ==
    LET var == DeclaredAs(T)
        row == GrammarRow(T)
    IN /\ var.var_type = row.var_type
       /\ var.bits = row.bits
       /\ var.frac_bits = row.frac_bits
       /\ var.char_length = row.char_length
       /\ var.status_values = row.status_values
       /\ row.var_type \in {"INTEGER", "FIXED"} => var.signed = (T[3] = <<"S">>)

\* C24: the mode and the extracted fields of a declared variable are those of
\* the row of the grammar table its type specification matches, and a type
\* specification that matches no row (a user type name, I 16 without S or U)
\* gives mode UNKNOWN with bits, frac_bits and char_length unset
C24_ModeFromTypeSpec == \A T \in TypeSpecs : ModeAsInTable(T)

\* the constant mode after a statement is parsed in the current state
ModeAfter(stmt) == parse_statement(Bundle, stmt, line).m.constant_mode

\* a statement other than CMODE leaves the constant mode as it is
OnlyCmodeSetsMode == \A stmt \in Stmts \ Routing["cmode"] : ModeAfter(stmt) = model.constant_mode

\* C25: the constant mode is D before any statement, no statement but CMODE
\* changes it, and after CMODE O it is O and after CMODE D it is D, so that it
\* always reflects the last CMODE statement
C25_ConstantModeFollowsCmode ==
    /\ nstmt = 0 => model.constant_mode = "D"
    /\ OnlyCmodeSetsMode
    /\ ModeAfter(<<Keyword.CMODE, <<"O">> >>) = "O"
    /\ ModeAfter(<<Keyword.CMODE, <<"D">> >>) = "D"

\* the table opened last, unless END-TABLE has closed it: <<heap index>>, or None
OpenTable ==
    IF Of("table") = {} \/ Max(Of("table")) \in closed THEN None
    ELSE <<Max(Of("table"))>>

\* FIELD statements that match the pattern of _parse_field_declaration
FieldForms ==
    { s \in Routing["field"] : field_match(s).match }
       \cup { <<Keyword.FIELD, <<"c">>, <<"F">> >> }

\* fields after a field called name was added: behind the others when the
\* name is new, in the place of the field of that name otherwise
AddedInOrder(old, new, name) ==
    IF \E i \in DOMAIN old : old[i].name = name
    THEN /\ Len(new) = Len(old)
         /\ \A i \in DOMAIN old : IF old[i].name = name THEN new[i].name = name
                                                         ELSE new[i] = old[i]
    ELSE /\ Len(new) = Len(old) + 1
         /\ SubSeq(new, 1, Len(old)) = old
         /\ new[Len(new)].name = name

\* C26: a FIELD statement that matches its pattern adds the field, in
\* insertion order, to the fields of the table that was opened last and is not
\* closed by END-TABLE, and changes no other entity; with no table open it
\* leaves the whole model unchanged
C26_FieldGoesToOpenTable ==
    \A s \in FieldForms :
       LET Q == parse_statement(Bundle, s, line) IN
       /\ Q.m = model
       /\ DOMAIN Q.h = DOMAIN heap
       /\ \A i \in DOMAIN heap :
             IF OpenTable = <<i>>
             THEN /\ AddedInOrder(heap[i].fields, Q.h[i].fields, Upper(s[2]))
                  /\ [Q.h[i] EXCEPT !.fields = <<>>] = [heap[i] EXCEPT !.fields = <<>>]
             ELSE Q.h[i] = heap[i]

\* an open table with two fields, in the order of their FIELD statements
C26_SecondFieldOfOpenTable ==
    \E i \in Of("table") :
       /\ OpenTable = <<i>>
       /\ Len(heap[i].fields) = 2
       /\ heap[i].fields[1].name = <<"A">> /\ heap[i].fields[2].name = <<"B">>

\* the close keyword of each kind of block
CloseKeyword ==
    [ sys_dd    |-> Keyword.END_SYS_DD,  sys_proc  |-> Keyword.END_SYS_PROC,
      table     |-> Keyword.END_TABLE,   type      |-> Keyword.END_TYPE,
      procedure |-> Keyword.END_PROC,    function  |-> Keyword.END_FUNCTION ]

\* close statements of a kind: the keyword alone and with a name behind it
CloseForms(kind) ==
    { <<CloseKeyword[kind]>>, <<CloseKeyword[kind], <<"A">>>>, <<CloseKeyword[kind], <<"b">>>> }

\* the entities of a kind that a statement opened as a block: a status type
\* is registered without a block
Blocks(kind) ==
    { i \in Of(kind) : kind = "type" => heap[i].status_values = <<>> }

\* the block of a kind that was opened last, unless its close statement has
\* closed it: <<heap index>>, or None
OpenBlock(kind) ==
    IF Blocks(kind) = {} \/ Max(Blocks(kind)) \in closed THEN None
    ELSE <<Max(Blocks(kind))>>

\* the parser tracks no open block of the kind
NoneOpen(S, kind) ==
    CASE kind = "sys_dd"    -> ~S.in_sys_dd      /\ S.current_sys_dd = None
      [] kind = "sys_proc"  -> ~S.in_sys_proc    /\ S.current_sys_proc = None
      [] kind = "table"     -> ~S.in_table_block /\ S.current_table = None
      [] kind = "type"      -> ~S.in_type_block  /\ S.current_type = None
      [] kind = "procedure" -> ~S.in_procedure   /\ S.current_procedure = None
      [] kind = "function"  -> ~S.in_function    /\ S.current_function = None

\* a close statement of the kind, parsed in the current state, gives the open
\* block of the kind its line as line_end, changes no other entity and no
\* registry, and leaves no block of the kind open
ClosesOpenBlock(kind) ==
    \A s \in CloseForms(kind) :
       LET Q == parse_statement(Bundle, s, line) IN
       /\ [Q.m EXCEPT !.current_scope = "GLOBAL"] = [model EXCEPT !.current_scope = "GLOBAL"]
       /\ NoneOpen(Q.s, kind)
       /\ Q.h = IF OpenBlock(kind) = None THEN heap
                ELSE [heap EXCEPT ![OpenBlock(kind)[1]].line_end = line]

\* C27: each close statement, whatever name follows the keyword, sets the
\* line_end of the block of its kind that was opened last and is not closed
\* to its own line and leaves no block of that kind open; when no block of
\* that kind is open it changes no entity
C27_CloseStatementClosesLastBlock == \A kind \in DOMAIN CloseKeyword : ClosesOpenBlock(kind)

(***************************************************************************)
(* Further properties of the server, checked under ServerSpec.             *)
(***************************************************************************)
\* the methods of the requests: the queries, initialize, shutdown and a
\* method the dispatch does not know
RequestMethods ==
    { "textDocument/completion", "textDocument/hover", "textDocument/definition",
      "textDocument/references", "textDocument/documentSymbol",
      "initialize", "shutdown", "$/unknown" }

\* two responses to the same request, made when the uri had the same text
SameRequest(i, j) ==
    /\ requested[i].method = requested[j].method
    /\ asof[i] = asof[j]

RepeatedRequestSameResult ==
    \A i \in DOMAIN stdout, j \in DOMAIN stdout :
       SameRequest(i, j) => stdout[i].result = stdout[j].result

\* C29: a step that answers a request (completion, hover, definition,
\* references, documentSymbol, initialize, shutdown or an unknown method)
\* leaves the text, the model and the parser (its fields and its lines) of
\* every uri unchanged, and a request that is repeated gets the same result
C29_RequestsReadOnly ==
    [][ /\ (Len(stdout') = Len(stdout) + 1
              /\ requested'[Len(requested')].method \in RequestMethods)
           => /\ documents' = documents
              /\ models' = models
              /\ parsers' = parsers
        /\ RepeatedRequestSameResult' ]_vars

\* a hover on an identifier of an open document, answered twice with contents
C29_HoverAskedTwice ==
    \E i \in DOMAIN stdout, j \in DOMAIN stdout :
       /\ i < j
       /\ SameRequest(i, j)
       /\ requested[i].method = "textDocument/hover"
       /\ stdout[i].result # None
       /\ Has(parsers, asof[i][1].uri)

\* the latest notification for uri u is the didChange handled in this step
ChangedNow(u) ==
    /\ Get(current', u) # Get(current, u)
    /\ Get(current', u) # None
    /\ Get(current', u)[1].by = "didChange"

\* C30: documents, models and parsers always have the same keys; a step that
\* is no didOpen, no didClose and no didChange with entries (among them a
\* didChange with an empty contentChanges) changes none of the three; and a
\* didChange with entries leaves its uri with a text, a model and a parser,
\* also when the uri was never opened
C30_ThreeMapsInStep ==
    [][ /\ DOMAIN documents' = DOMAIN models'
        /\ DOMAIN models' = DOMAIN parsers'
        /\ current' = current =>
              documents' = documents /\ models' = models /\ parsers' = parsers
        /\ \A u \in URIs :
              ChangedNow(u) =>
                 /\ Get(documents', u) = << current'[u].text >>
                 /\ Get(models', u) = << Stored(parse(current'[u].text)) >>
                 /\ Get(parsers', u) = << StoredParser(parse(current'[u].text), current'[u].text) >> ]_vars

\* the first message of the session was a didChange with entries for a uri,
\* which was never opened and now has a text, a model and a parser
C30_ChangeBeforeOpen ==
    /\ nmsg = 1
    /\ stdout = <<>>
    /\ requested = <<>>
    /\ running
    /\ \E u \in URIs :
          /\ DOMAIN current = {u}
          /\ current[u].by = "didChange"
          /\ DOMAIN documents = {u} /\ DOMAIN models = {u} /\ DOMAIN parsers = {u}

====
